---- MODULE Spec2Model ----
(***************************************************************************)
(* Attention engine of eipspranalytics: buildTimeline (src/src/events.ts)  *)
(* followed by analyzeTimeline (analysis module, src/unnamed/part_004).    *)
(*                                                                         *)
(* Logins are strings in the code.  A login is modelled by the three       *)
(* things the code looks at: its text folded to lower case (name), how the *)
(* text is capitalised (spelling) and whether it ends with the bot suffix  *)
(* "[bot]" (bot).  The empty name stands for the falsy logins (null,       *)
(* undefined, "").  Timestamps are ISO-8601 strings of one encoding,       *)
(* modelled by the integers 1..MaxTime in chronological order; NoTs stands *)
(* for an absent timestamp (null / undefined).                             *)
(***************************************************************************)
EXTENDS Integers, Sequences, FiniteSets, TLC

\* ------------------------------------------------------------------ bounds
\* Timestamps range over 1..MaxTime.
MaxTime == 3
\* The four listings together hold at most MaxRecords records.
MaxRecords == 2

\* Most files in a fileChanges list handed to the classifier.
MaxFiles == 2

\* Most files and most activity records of a PR that goes through a caller.
MaxPipelineFiles == 1

MaxPipelineRecords == 1
\* calls of the engine's functions in one run of the engine's state machine
MaxCalls == 3
\* invocations of sync in one run of the scheduler
MaxCycles == 3
\* configured GitHub tokens
TokenCount == 2
\* requests the caller issues through the client
MaxRequests == 2
\* rate-limit responses the server gives to one request
MaxRateLimits == 2

\* ------------------------------------------------------------ value domains
NoTs == 0
Times == 1..MaxTime
MaybeTimes == Times \cup {NoTs}

Login(n, s, b) == [name |-> n, spelling |-> s, bot |-> b]
NoLogin == Login("", "lower", FALSE)
BOT_LOGIN_SUFFIX == "[bot]"

\* "Alice" as a configuration file spells it, "ALICE" as the API reports it,
\* "bob", and the automated account "bob[bot]".
Alice == Login("alice", "Capital", FALSE)
ALICE == Login("alice", "UPPER", FALSE)
bob == Login("bob", "lower", FALSE)
bobBot == Login("bob", "lower", TRUE)

\* String.prototype.toLowerCase: the suffix "[bot]" is lower case already.
toLowerCase(l) == [l EXCEPT !.spelling = "lower"]

\* login.endsWith(BOT_LOGIN_SUFFIX)
endsWith(l, suffix) == suffix = BOT_LOGIN_SUFFIX /\ l.bot

\* !login
Falsy(l) == l.name = ""

\* Variant of isBot that only rejects a missing login.
isBotNullOnly(login) == Falsy(login)

isBot(login) == IF Falsy(login) THEN TRUE ELSE endsWith(login, BOT_LOGIN_SUFFIX)

Null == << >>
Some(x) == <<x>>

\* The openers of a run.
OpenerLogins == {NoLogin, bob, bobBot}

\* A review: approved by ALICE at every time, with changes requested at the
\* first, a plain one with only created_at or without any timestamp, and the
\* bot's.
ReviewPool ==
    [user : {ALICE}, state : {"APPROVED"}, submitted_at : Times, created_at : {NoTs}]
    \cup [user : {ALICE}, state : {"CHANGES_REQUESTED"}, submitted_at : {1},
          created_at : {NoTs}]
    \cup [user : {ALICE}, state : {"COMMENTED"}, submitted_at : {NoTs},
          created_at : {NoTs, MaxTime}]
    \cup [user : {bobBot}, state : {"APPROVED"}, submitted_at : {MaxTime},
          created_at : {NoTs}]

\* An issue comment, with or without created_at.
IssueCommentPool ==
    [user : {ALICE, bob}, created_at : MaybeTimes]
    \cup [user : {bobBot}, created_at : {MaxTime}]

\* A commit is attributed to author.login or, failing that, committer.login;
\* it is dated by commit.author.date or, failing that, commit.committer.date.
CommitPool ==
    [author : {bob}, committer : {NoLogin}, authorDate : MaybeTimes,
     committerDate : {NoTs}]
    \cup [author : {NoLogin, bobBot}, committer : {bob}, authorDate : {NoTs},
          committerDate : {MaxTime}]
    \cup [author : {NoLogin}, committer : {NoLogin}, authorDate : {MaxTime},
          committerDate : {NoTs}]

SeqsUpTo(S, n) == UNION {[1..k -> S] : k \in 0..n}

VARIABLES
    editors,          \* params.editors
    authors,          \* params.authors
    prAuthorLogin,    \* params.prAuthorLogin (NoLogin for null)
    prCreatedAt,      \* params.prCreatedAt
    reviews,          \* what octokit.pulls.listReviews yields, page after page
    issueComments,    \* what octokit.issues.listComments yields
    reviewComments,   \* what octokit.pulls.listReviewComments yields
    commits,          \* what octokit.pulls.listCommits yields
    events,           \* the timeline buildTimeline returned
    pc,               \* "start", "built", "threw", "analyzed"
    result            \* what analyzeTimeline returned (Null before)

VARIABLES
    caller,           \* "csv", "mongo", or "none" when no caller runs
    isDraft,          \* pr.draft ?? false
    prTitle,          \* pr.title
    prBody,           \* prDetails.body ?? null
    prDetails,        \* what octokit.pulls.get yields
    listedFiles,      \* what octokit.pulls.listFiles yields
    updatedAt,        \* pr.updated_at (NoTs when absent)
    now,              \* new Date() / Date.now()
    isTypoLike,       \* the caller's isTypoLike
    fileChanges,      \* the caller's fileChanges, flags set
    returned,         \* what classifyPRType returned
    classification,   \* the caller's classification object
    daysSinceLastActivity,
    categorized,      \* what categorizeResult returned
    output            \* the CSV row, the stored document, then the board row

VARIABLES
    calls,            \* the calls of the engine's functions made so far
    cycles,           \* the invocations of sync, each with the job it is at
    log,              \* what the jobs of the sync cycles did, in order
    timer,            \* whether main has reached setInterval
    db,               \* the collections of the database
    rotator,          \* the TokenRotator singleton
    request           \* the request the client is serving

vars == <<editors, authors, prAuthorLogin, prCreatedAt, reviews, issueComments,
          reviewComments, commits, events, pc, result,
          caller, isDraft, prTitle, prBody, prDetails, listedFiles, updatedAt, now,
          isTypoLike, fileChanges, returned, classification, daysSinceLastActivity,
          categorized, output,
          calls, cycles, log, timer, db, rotator, request>>

serviceVars == <<calls, cycles, log, timer, db, rotator, request>>

inputs == <<editors, authors, prAuthorLogin, prCreatedAt, reviews, issueComments,
            reviewComments, commits>>

callerInputs == <<caller, isDraft, prTitle, prBody, prDetails, listedFiles,
                  updatedAt, now>>

callerVars == <<callerInputs, isTypoLike, fileChanges, returned, classification,
                daysSinceLastActivity, categorized, output>>

\* ------------------------------------------------------- buildTimeline
normalizedEditors(eds) == {toLowerCase(e) : e \in eds}

effectiveAuthors(auths, opener) ==
    {toLowerCase(a) : a \in auths} \cup
    (IF ~Falsy(opener) /\ ~isBot(opener) THEN {toLowerCase(opener)} ELSE {})

\* Variant of classifyRole that looks at the author set first.
classifyRoleAuthorFirst(login, eds, auths, opener) ==
    IF Falsy(login) THEN "null"
    ELSE IF toLowerCase(login) \in {toLowerCase(a) : a \in auths} \cup
                                   (IF Falsy(opener) \/ opener.bot THEN {}
                                    ELSE {toLowerCase(opener)})
         THEN "AUTHOR"
    ELSE IF toLowerCase(login) \in {toLowerCase(e) : e \in eds} THEN "EDITOR"
    ELSE "null"

\* "EDITOR", "AUTHOR" or "null"
classifyRole(login, eds, auths, opener) ==
    IF Falsy(login) THEN "null"
    ELSE IF toLowerCase(login) \in normalizedEditors(eds) THEN "EDITOR"
    ELSE IF toLowerCase(login) \in effectiveAuthors(auths, opener) THEN "AUTHOR"
    ELSE "null"

Event(a, r, s, t) == [actor |-> a, role |-> r, source |-> s, timestamp |-> t]

\* Variant of OpenedEvents that does not look at the opener's role.
OpenedEventsAnyRole(eds, auths, opener, createdAt) ==
    IF ~Falsy(opener) /\ ~opener.bot
    THEN << [actor |-> opener, role |-> "AUTHOR", source |-> "PR_OPENED",
             timestamp |-> createdAt] >>
    ELSE << >>

\* PR opened event (an author event if the opener is an author)
OpenedEvents(eds, auths, opener, createdAt) ==
    IF ~Falsy(opener) /\ ~isBot(opener)
       /\ classifyRole(opener, eds, auths, opener) = "AUTHOR"
    THEN << Event(opener, "AUTHOR", "PR_OPENED", createdAt) >>
    ELSE << >>

ReviewSource(r) ==
    IF r.state = "APPROVED" THEN "REVIEW_APPROVED"
    ELSE IF r.state = "CHANGES_REQUESTED" THEN "REVIEW_CHANGES_REQUESTED"
    ELSE "REVIEW_COMMENTED"

\* r.submitted_at ?? r.created_at
ReviewTs(r) == IF r.submitted_at # NoTs THEN r.submitted_at ELSE r.created_at

RECURSIVE ReviewEvents(_, _, _, _)
ReviewEvents(rs, eds, auths, opener) ==
    IF rs = << >> THEN << >>
    ELSE LET r == Head(rs)
             login == r.user
             role == classifyRole(login, eds, auths, opener)
             rest == ReviewEvents(Tail(rs), eds, auths, opener)
         IN IF isBot(login) THEN rest
            ELSE IF role = "null" THEN rest
            ELSE IF ReviewTs(r) = NoTs THEN rest
            ELSE <<Event(login, role, ReviewSource(r), ReviewTs(r))>> \o rest

\* Issue comments and review comments: created_at is used as it is.
RECURSIVE CommentEvents(_, _, _, _, _)
CommentEvents(cs, source, eds, auths, opener) ==
    IF cs = << >> THEN << >>
    ELSE LET c == Head(cs)
             login == c.user
             role == classifyRole(login, eds, auths, opener)
             rest == CommentEvents(Tail(cs), source, eds, auths, opener)
         IN IF isBot(login) THEN rest
            ELSE IF role = "null" THEN rest
            ELSE <<Event(login, role, source, c.created_at)>> \o rest

\* commit.author?.login ?? commit.committer?.login ?? null
GithubLogin(commit) ==
    IF commit.author # NoLogin THEN commit.author ELSE commit.committer

\* commit.commit.author?.date ?? commit.commit.committer?.date ?? null
CommitTs(commit) ==
    IF commit.authorDate # NoTs THEN commit.authorDate ELSE commit.committerDate

RECURSIVE CommitEvents(_, _, _, _)
CommitEvents(cs, eds, auths, opener) ==
    IF cs = << >> THEN << >>
    ELSE LET commit == Head(cs)
             githubLogin == GithubLogin(commit)
             role == classifyRole(githubLogin, eds, auths, opener)
             rest == CommitEvents(Tail(cs), eds, auths, opener)
         IN IF isBot(githubLogin) THEN rest
            ELSE IF role = "null" THEN rest
            ELSE IF CommitTs(commit) = NoTs THEN rest
            ELSE <<Event(githubLogin, role, "COMMIT", CommitTs(commit))>> \o rest

\* The events array before the final sort, in the order the code pushes.
CollectEvents(eds, auths, opener, createdAt, rs, ics, rcs, cms) ==
    OpenedEvents(eds, auths, opener, createdAt)
    \o ReviewEvents(rs, eds, auths, opener)
    \o CommentEvents(ics, "ISSUE_COMMENT", eds, auths, opener)
    \o CommentEvents(rcs, "REVIEW_COMMENT", eds, auths, opener)
    \o CommitEvents(cms, eds, auths, opener)

\* a.timestamp.localeCompare(b.timestamp), for a.timestamp a string: -1, 0 or 1.
\* The argument goes through ToString, so an absent b.timestamp is compared
\* as the text "undefined", which collates after every ISO timestamp.
localeCompare(a, b) ==
    IF b = NoTs THEN -1
    ELSE IF a < b THEN -1
    ELSE IF a > b THEN 1
    ELSE 0

\* Variant of InsertEvent that puts an event in front of its equals.
RECURSIVE InsertEventBeforeEqual(_, _)
InsertEventBeforeEqual(sorted, e) ==
    IF sorted = << >> THEN <<e>>
    ELSE LET last == sorted[Len(sorted)]
         IN IF e.timestamp # NoTs /\ localeCompare(e.timestamp, last.timestamp) <= 0
            THEN InsertEventBeforeEqual(SubSeq(sorted, 1, Len(sorted) - 1), e) \o <<last>>
            ELSE sorted \o <<e>>

\* Array.prototype.sort is stable: an event goes behind every event already
\* placed that does not compare greater than it.
RECURSIVE InsertEvent(_, _)
InsertEvent(sorted, e) ==
    IF sorted = << >> THEN <<e>>
    ELSE LET last == sorted[Len(sorted)]
         IN IF e.timestamp # NoTs /\ localeCompare(e.timestamp, last.timestamp) < 0
            THEN InsertEvent(SubSeq(sorted, 1, Len(sorted) - 1), e) \o <<last>>
            ELSE sorted \o <<e>>

\* Variant of SortEvents that leaves the events as they were pushed.
NoSort(evs) == evs

RECURSIVE SortEvents(_)
SortEvents(evs) ==
    IF evs = << >> THEN << >>
    ELSE InsertEvent(SortEvents(SubSeq(evs, 1, Len(evs) - 1)), evs[Len(evs)])

\* The number of events whose timestamp is absent.
Undated(evs) == Cardinality({i \in 1..Len(evs) : evs[i].timestamp = NoTs})

\* The comparator throws a TypeError when it reads a.timestamp.localeCompare
\* of an event a without timestamp.  Which of two events the engine passes as
\* a is not fixed by the language.  No comparison is made for fewer than two
\* events; two events without timestamp have to be compared with each other.
SortMayThrow(evs) == Len(evs) >= 2 /\ Undated(evs) >= 1
SortMayReturn(evs) == Len(evs) < 2 \/ Undated(evs) <= 1

\* ------------------------------------------------------- analyzeTimeline
\* Variant of TsGreater with >= for >.
TsGreaterOrEqual(a, b) == a # NoTs /\ b # NoTs /\ a >= b

\* e.timestamp > other.timestamp on strings; false when either is undefined.
TsGreater(a, b) == a # NoTs /\ b # NoTs /\ a > b

ReasonNoEditor == "No editor has interacted with this PR yet; it is waiting for initial editor attention."
ReasonAuthorReplied == "An editor interacted with the PR and the author has since responded; it is now waiting on editor attention."
ReasonWaitingOnAuthor == "An editor has interacted with the PR and there has been no author response since; it is waiting on the author."

EditorSummary(e) == [type |-> e.source, date |-> e.timestamp, actor |-> e.actor]
AuthorSummary(e) == [type |-> e.source, date |-> e.timestamp]

IsEditorEvent(e) == e.role = "EDITOR"
IsAuthorEvent(e) == e.role = "AUTHOR"

\* editorEvents[editorEvents.length - 1], or null
lastEditorEvent(evs) ==
    LET editorEvents == SelectSeq(evs, IsEditorEvent)
    IN IF Len(editorEvents) > 0 THEN Some(editorEvents[Len(editorEvents)]) ELSE Null

\* Variant of lastAuthorEvent that takes authorEvents[0].
firstAuthorEvent(evs) ==
    LET authorEvents == SelectSeq(evs, IsAuthorEvent)
    IN IF Len(authorEvents) > 0 THEN Some(authorEvents[1]) ELSE Null

\* authorEvents[authorEvents.length - 1], or null
lastAuthorEvent(evs) ==
    LET authorEvents == SelectSeq(evs, IsAuthorEvent)
    IN IF Len(authorEvents) > 0 THEN Some(authorEvents[Len(authorEvents)]) ELSE Null

\* Variant of lastAuthorAfterEditor that takes the first author event after E.
firstAuthorAfterEditor(evs, E) ==
    LET AfterEditor(e) == e.timestamp # NoTs /\ E.timestamp # NoTs /\ e.timestamp > E.timestamp
        after == SelectSeq(SelectSeq(evs, IsAuthorEvent), AfterEditor)
    IN IF Len(after) > 0 THEN Some(after[1]) ELSE Null

\* authorEvents.filter((e) => e.timestamp > E.timestamp).slice(-1)[0] ?? null
lastAuthorAfterEditor(evs, E) ==
    LET AfterEditor(e) == TsGreater(e.timestamp, E.timestamp)
        after == SelectSeq(SelectSeq(evs, IsAuthorEvent), AfterEditor)
    IN IF Len(after) > 0 THEN Some(after[Len(after)]) ELSE Null

\* Variant of NoEditorYet that waits since the last author event.
NoEditorYetSinceAuthor(lastAuthor) ==
    [needsEditorAttention |-> TRUE,
     waitingSince |-> IF lastAuthor # Null THEN lastAuthor[1].timestamp ELSE NoTs,
     lastEditorAction |-> Null,
     lastAuthorAction |->
         IF lastAuthor # Null
         THEN Some([type |-> lastAuthor[1].source, date |-> lastAuthor[1].timestamp])
         ELSE Null,
     reason |-> ReasonNoEditor]

\* The three results; lastAuthor is an event or null.
NoEditorYet(lastAuthor) ==
    [needsEditorAttention |-> TRUE,
     waitingSince |-> NoTs,
     lastEditorAction |-> Null,
     lastAuthorAction |->
         IF lastAuthor # Null THEN Some(AuthorSummary(lastAuthor[1])) ELSE Null,
     reason |-> ReasonNoEditor]

AuthorReplied(E, A) ==
    [needsEditorAttention |-> TRUE,
     waitingSince |-> A.timestamp,
     lastEditorAction |-> Some(EditorSummary(E)),
     lastAuthorAction |-> Some(AuthorSummary(A)),
     reason |-> ReasonAuthorReplied]

WaitingOnAuthor(E, lastAuthor) ==
    [needsEditorAttention |-> FALSE,
     waitingSince |-> NoTs,
     lastEditorAction |-> Some(EditorSummary(E)),
     lastAuthorAction |->
         IF lastAuthor # Null THEN Some(AuthorSummary(lastAuthor[1])) ELSE Null,
     reason |-> ReasonWaitingOnAuthor]

analyzeTimeline(evs) ==
    IF lastEditorEvent(evs) = Null
    THEN NoEditorYet(lastAuthorEvent(evs))
    ELSE LET E == lastEditorEvent(evs)[1]
         IN IF lastAuthorAfterEditor(evs, E) # Null
            THEN AuthorReplied(E, lastAuthorAfterEditor(evs, E)[1])
            ELSE WaitingOnAuthor(E, lastAuthorEvent(evs))

\* ------------------------------------------------------------------- text
\* Titles, bodies and file names are JavaScript strings: sequences of
\* characters, each character a one-character string.
UpperLetters == <<"A", "B", "C", "D", "E", "F", "G", "H", "I", "J", "K", "L", "M", "N", "O", "P", "Q", "R", "S", "T", "U", "V", "W", "X", "Y", "Z">>
LowerLetters == <<"a", "b", "c", "d", "e", "f", "g", "h", "i", "j", "k", "l", "m", "n", "o", "p", "q", "r", "s", "t", "u", "v", "w", "x", "y", "z">>
DigitChars == {"0", "1", "2", "3", "4", "5", "6", "7", "8", "9"}

\* One character of String.prototype.toLowerCase / the i flag of a regex.
lowerChar(c) ==
    IF \E i \in 1..26 : UpperLetters[i] = c
    THEN LowerLetters[CHOOSE i \in 1..26 : UpperLetters[i] = c]
    ELSE c

\* s.toLowerCase() on a text.
textToLowerCase(s) == [i \in 1..Len(s) |-> lowerChar(s[i])]

\* \w of a regex: letter, digit or underscore.
IsWordChar(c) ==
    \/ \E i \in 1..26 : UpperLetters[i] = c \/ LowerLetters[i] = c
    \/ c \in DigitChars
    \/ c = "_"

\* \s of a regex, for the characters the texts use.
IsSpace(c) == c \in {" ", "\n"}

\* p occurs in s starting at position i.
OccursAt(s, p, i) ==
    /\ i >= 1
    /\ i + Len(p) - 1 <= Len(s)
    /\ \A k \in 1..Len(p) : s[i + k - 1] = p[k]

\* s.includes(p)
includes(s, p) == \E i \in 1..(Len(s) + 1) : OccursAt(s, p, i)

\* s.startsWith(p)
startsWith(s, p) == OccursAt(s, p, 1)

\* /p$/ : s ends with p.
textEndsWith(s, p) == OccursAt(s, p, Len(s) - Len(p) + 1)

\* /p/i for a literal p written in lower case.
MatchesI(s, p) == includes(textToLowerCase(s), p)

\* /\bp\b/i for a literal word p written in lower case: an occurrence that
\* has no word character right before it and none right after it.
MatchesWordI(s, p) ==
    LET t == textToLowerCase(s)
    IN \E i \in 1..Len(t) :
          /\ OccursAt(t, p, i)
          /\ (i = 1 \/ ~IsWordChar(t[i - 1]))
          /\ (i + Len(p) > Len(t) \/ ~IsWordChar(t[i + Len(p)]))

\* s.trim()
RECURSIVE trimStart(_)
trimStart(s) == IF s # << >> /\ IsSpace(Head(s)) THEN trimStart(Tail(s)) ELSE s

RECURSIVE trimEnd(_)
trimEnd(s) ==
    IF s # << >> /\ IsSpace(s[Len(s)]) THEN trimEnd(SubSeq(s, 1, Len(s) - 1)) ELSE s

trim(s) == trimEnd(trimStart(s))

\* The template `${a} ${b}`.
JoinWithSpace(a, b) == a \o <<" ">> \o b

\* prBody null (prBody: string | null): no text has an element longer than
\* one character, so this value is none of them.
NullBody == <<"null">>


\* The literals of the regular expressions of the classifier and its callers,
\* in lower case.
\* /typo|grammar|spelling/i
TypoWords == {<<"t", "y", "p", "o">>,
              <<"g", "r", "a", "m", "m", "a", "r">>,
              <<"s", "p", "e", "l", "l", "i", "n", "g">>}

\* /status|move|withdraw|finalize|supersede/i
StatusWords == {<<"s", "t", "a", "t", "u", "s">>,
                <<"m", "o", "v", "e">>,
                <<"w", "i", "t", "h", "d", "r", "a", "w">>,
                <<"f", "i", "n", "a", "l", "i", "z", "e">>,
                <<"s", "u", "p", "e", "r", "s", "e", "d", "e">>}

\* CI|Bump|Config|Chore of the three tooling patterns
ToolingWords == {<<"c", "i">>,
                 <<"b", "u", "m", "p">>,
                 <<"c", "o", "n", "f", "i", "g">>,
                 <<"c", "h", "o", "r", "e">>}

W_website == <<"w", "e", "b", "s", "i", "t", "e">>
W_websiteDir == <<"w", "e", "b", "s", "i", "t", "e", "/">>
W_eip1 == <<"e", "i", "p", "-", "1">>

\* EIPS\/eip- , ERCS\/erc- , RIPS\/rip-
SpecDocumentPrefixes == {<<"e", "i", "p", "s", "/", "e", "i", "p", "-">>,
                         <<"e", "r", "c", "s", "/", "e", "r", "c", "-">>,
                         <<"r", "i", "p", "s", "/", "r", "i", "p", "-">>}

\* EIPS\/eip-1\.md , ERCS\/erc-1\.md , RIPS\/rip-1\.md
DocumentOnePaths == {<<"e", "i", "p", "s", "/", "e", "i", "p", "-", "1", ".", "m", "d">>,
                     <<"e", "r", "c", "s", "/", "e", "r", "c", "-", "1", ".", "m", "d">>,
                     <<"r", "i", "p", "s", "/", "r", "i", "p", "-", "1", ".", "m", "d">>}

\* ----------------------------------------------------------- input texts
\* PR titles.
Titles ==
    {<<"U", "p", "d", "a", "t", "e", " ", "E", "I", "P", "-", "1", "5", "5", "9">>,
     <<"F", "i", "x", " ", "t", "y", "p", "o">>,
     <<"s", "t", "a", "t", "u", "s", " ", "u", "p", "d", "a", "t", "e">>,
     <<"N", "e", "w", " ", "W", "e", "b", "s", "i", "t", "e", " ", "p", "a", "g", "e">>,
     <<" ", "C", "I", ":", " ", "l", "i", "n", "t">>,
     <<"A", "d", "d", " ", "c", "i", "r", "c", "u", "i", "t", "s">>,
     <<"A", "d", "d", " ", "E", "R", "C">>}

\* PR descriptions (prDetails.body ?? null).
Bodies ==
    {NullBody,
     <<"C", "h", "o", "r", "e", " ", "c", "l", "e", "a", "n", "u", "p">>,
     <<"s", "e", "e", " ", "E", "I", "P", "-", "1">>}

\* Paths of changed files.
PathEip1 == <<"E", "I", "P", "S", "/", "e", "i", "p", "-", "1", ".", "m", "d">>
PathErc20 == <<"E", "R", "C", "S", "/", "e", "r", "c", "-", "2", "0", ".", "m", "d">>
PathRip7 == <<"R", "I", "P", "S", "/", "r", "i", "p", "-", "7", ".", "m", "d">>
PathWebsite == <<"w", "e", "b", "s", "i", "t", "e", "/", "i", "n", "d", "e", "x", ".", "h", "t", "m", "l">>
PathReadme == <<"R", "E", "A", "D", "M", "E", ".", "m", "d">>
PathOldEip1 == <<"o", "l", "d", "/", "E", "I", "P", "S", "/", "e", "i", "p", "-", "1", ".", "m", "d">>

\* --------------------------------------------------------- classifyPRType
PRTypes ==
    {"DRAFT", "TYPO", "NEW_EIP", "STATUS_CHANGE", "WEBSITE", "TOOLING", "EIP_1", "OTHER"}

\* A record of fileChanges.  preambleStatusChangedOnly is the flag the
\* callers add to it.
FileChange(f, s, a, d, p) ==
    [filename |-> f, status |-> s, additions |-> a, deletions |-> d,
     preambleStatusChangedOnly |-> p]

\* /EIPS\/eip-\d+\.md/i and its two siblings, for the lower-case prefix
\* "eips/eip-": the prefix, one or more digits, then ".md", anywhere in the
\* file name.
MatchesDocument(filename, prefix) ==
    LET t == textToLowerCase(filename)
    IN \E i \in 1..Len(t) : \E j \in 1..Len(t) :
          /\ OccursAt(t, prefix, i)
          /\ j >= i + Len(prefix)
          /\ \A k \in (i + Len(prefix))..j : t[k] \in DigitChars
          /\ OccursAt(t, <<".", "m", "d">>, j + 1)

\* f.filename.match(/EIPS\/eip-\d+\.md/i) || ...ERCS... || ...RIPS...
MatchesSpecDocument(filename) ==
    \E prefix \in SpecDocumentPrefixes : MatchesDocument(filename, prefix)

\* newEipFiles.length > 0
hasNewEipFiles(files) ==
    \E i \in 1..Len(files) :
        /\ files[i].status = "added"
        /\ MatchesSpecDocument(files[i].filename)

StatusChangeMaxLines == 20

\* modifiedEipFiles.length > 0
modifiedEipFiles(files) ==
    \E i \in 1..Len(files) :
        /\ files[i].status = "modified"
        /\ MatchesSpecDocument(files[i].filename)
        /\ files[i].additions + files[i].deletions < StatusChangeMaxLines

\* prBody ?? ""
BodyText(body) == IF body = NullBody THEN << >> ELSE body

hasWebsiteFiles(files) ==
    \E i \in 1..Len(files) :
        startsWith(textToLowerCase(files[i].filename), W_websiteDir)

textForWebsite(title, body) ==
    textToLowerCase(JoinWithSpace(title, BodyText(body)))

\* TOOLING_TITLE_PREFIX = /^(CI|Bump|Config|Chore):/i
TOOLING_TITLE_PREFIX(s) ==
    \E w \in ToolingWords : startsWith(textToLowerCase(s), w \o <<":">>)

\* TOOLING_FIRST_WORD = /^(CI|Bump|Config|Chore)$/i
TOOLING_FIRST_WORD(s) == textToLowerCase(s) \in ToolingWords

\* TOOLING_KEYWORD_IN_TITLE = /\b(config|bump|ci|chore)\b/i
TOOLING_KEYWORD_IN_TITLE(s) == \E w \in ToolingWords : MatchesWordI(s, w)

\* trimmed.split(/\s+/)[0] of a text that does not start with white space.
RECURSIVE firstToken(_)
firstToken(s) ==
    IF s = << >> \/ IsSpace(Head(s)) THEN << >> ELSE <<Head(s)>> \o firstToken(Tail(s))

\* Null when the body is null or blank, else Some(first word).
getFirstWordFromBody(body) ==
    IF body = NullBody THEN Null
    ELSE IF trim(body) = << >> THEN Null
    ELSE Some(firstToken(trim(body)))

isToolingText(title, body) ==
    \/ TOOLING_TITLE_PREFIX(trim(title))
    \/ TOOLING_KEYWORD_IN_TITLE(title)
    \/ (body # NullBody /\ TOOLING_KEYWORD_IN_TITLE(body))
    \/ (getFirstWordFromBody(body) # Null
          /\ TOOLING_FIRST_WORD(getFirstWordFromBody(body)[1]))

hasEip1File(files) ==
    \E i \in 1..Len(files) :
        \E doc \in DocumentOnePaths :
            textEndsWith(textToLowerCase(files[i].filename), doc)

\* /eip-1|eip\-1/i.test(textForEip1)
textMentionsEip1(title, body) ==
    MatchesI(JoinWithSpace(title, BodyText(body)), W_eip1)

\* What classifyPRType returns: openedByPreambleAuthor is not set (Null).
Classification(type) ==
    [type |-> type, isCreatedByBot |-> FALSE, openedByPreambleAuthor |-> Null]

\* The rules below the typo rule, in the order the code tries them.
FileAndTextRules(files, title, body) ==
    IF hasNewEipFiles(files) THEN "NEW_EIP"
    ELSE IF modifiedEipFiles(files) THEN "STATUS_CHANGE"
    ELSE IF hasWebsiteFiles(files)
            \/ includes(textForWebsite(title, body), W_website) THEN "WEBSITE"
    ELSE IF isToolingText(title, body) THEN "TOOLING"
    ELSE IF hasEip1File(files) \/ textMentionsEip1(title, body) THEN "EIP_1"
    ELSE "OTHER"

\* A classifier that tries the typo rule before the draft rule.
classifyPRTypeTypoFirst(draft, typoLike, files, title, body) ==
    IF typoLike THEN Classification("TYPO")
    ELSE IF draft THEN Classification("DRAFT")
    ELSE Classification(FileAndTextRules(files, title, body))

\* A classifier that tries the website rule before the file rules.
classifyPRTypeWebsiteFirst(draft, typoLike, files, title, body) ==
    IF draft THEN Classification("DRAFT")
    ELSE IF typoLike THEN Classification("TYPO")
    ELSE IF hasWebsiteFiles(files)
            \/ includes(textForWebsite(title, body), W_website)
         THEN Classification("WEBSITE")
    ELSE Classification(FileAndTextRules(files, title, body))

classifyPRType(draft, typoLike, files, title, body) ==
    IF draft THEN Classification("DRAFT")
    ELSE IF typoLike THEN Classification("TYPO")
    ELSE Classification(FileAndTextRules(files, title, body))

\* ------------------------------------------------- callers: classification
\* The two callers of the engine: "csv" is the CSV pipeline (main of
\* src/src/index.ts) and "mongo" the Mongo import (enrichOpenPR of
\* src/src/mongo/import-job.ts).

W_dirty == <<"d", "i", "r", "t", "y">>

\* What octokit.pulls.get yields, as far as the callers read it.  mergeable is
\* Some(TRUE), Some(FALSE) or Null.
PrDetails(cf, a, d, ms, m) ==
    [changed_files |-> cf, additions |-> a, deletions |-> d,
     mergeable_state |-> ms, mergeable |-> m]

hasBranchConflict(details) ==
    \/ textToLowerCase(details.mergeable_state) = W_dirty
    \/ details.mergeable = Some(FALSE)

\* isTypoLike of the two callers; only the CSV pipeline looks at conflicts.
IsTypoLike(who, title, details) ==
    /\ \E w \in TypoWords : MatchesI(title, w)
    /\ details.changed_files <= 5
    /\ details.additions + details.deletions < 50
    /\ (who = "csv" => ~hasBranchConflict(details))

\* /status|move|withdraw|finalize|supersede/i.test(prTitle)
isStatusChangeLike(title) ==
    \E w \in StatusWords : MatchesI(title, w)

\* A file as octokit.pulls.listFiles reports it.  statusLineOnly says what the
\* comparison of its base and head contents finds: both could be read, the
\* bodies are equal, and the preambles differ in the status line and nowhere
\* else.
ListedFile(f, s, a, d, only) ==
    [filename |-> f, status |-> s, additions |-> a, deletions |-> d,
     statusLineOnly |-> only]

\* The callers' loop that sets preambleStatusChangedOnly on every file.
withPreambleFlags(listed) ==
    [i \in 1..Len(listed) |->
        FileChange(listed[i].filename, listed[i].status,
                   listed[i].additions, listed[i].deletions,
                   /\ listed[i].status = "modified"
                   /\ MatchesSpecDocument(listed[i].filename)
                   /\ listed[i].statusLineOnly)]

\* fileChanges.some(modified spec document with the flag)
hasFlaggedModifiedEipFiles(files) ==
    \E i \in 1..Len(files) :
        /\ files[i].status = "modified"
        /\ MatchesSpecDocument(files[i].filename)
        /\ files[i].preambleStatusChangedOnly = TRUE

\* hasModifiedEipFiles without the flag test.
hasAnyModifiedEipFiles(files) ==
    \E i \in 1..Len(files) :
        /\ files[i].status = "modified"
        /\ MatchesSpecDocument(files[i].filename)

\* The override with a test for modified spec documents of any content.
statusChangeOverrideAnyDiff(c, draft, typoLike, files, title) ==
    IF /\ ~draft
       /\ ~typoLike
       /\ c.type = "OTHER"
       /\ isStatusChangeLike(title)
       /\ hasAnyModifiedEipFiles(files)
    THEN [c EXCEPT !.type = "STATUS_CHANGE"]
    ELSE c

\* The override both callers apply to what classifyPRType returned.
statusChangeOverride(c, draft, typoLike, files, title) ==
    IF /\ ~draft
       /\ ~typoLike
       /\ c.type = "OTHER"
       /\ isStatusChangeLike(title)
       /\ hasFlaggedModifiedEipFiles(files)
    THEN [c EXCEPT !.type = "STATUS_CHANGE"]
    ELSE c

\* prAuthorLogin !== null && prAuthorLogin.endsWith(BOT_LOGIN_SUFFIX)
isCreatedByBot(opener) == opener # NoLogin /\ endsWith(opener, BOT_LOGIN_SUFFIX)

\* prAuthorLogin !== null && authors.has(prAuthorLogin)
openedByPreambleAuthor(opener, auths) == opener # NoLogin /\ opener \in auths

\* ------------------------------------------------------- categorizeResult
STAGNANT_THRESHOLD_DAYS == 90

ReasonOverride == "This status-change PR has no editor or EIP author interactions yet; it is waiting on the EIP authors."
ReasonDraft == "This PR is in draft status."

\* A special case that looks at the type and the opener only.
overrideAppliesByTypeOnly(r, c) ==
    /\ c.type \in {"STATUS_CHANGE", "NEW_EIP"}
    /\ c.openedByPreambleAuthor # Some(TRUE)

\* openedByPreambleAuthor is Null (undefined), Some(FALSE) or Some(TRUE).
overrideApplies(r, c) ==
    /\ c.type \in {"STATUS_CHANGE", "NEW_EIP"}
    /\ c.openedByPreambleAuthor # Some(TRUE)
    /\ r.lastEditorAction = Null
    /\ r.lastAuthorAction = Null

\* The result after the special case for status-change and new-EIP PRs.
overridden(r, c) ==
    IF overrideApplies(r, c)
    THEN [r EXCEPT !.needsEditorAttention = FALSE,
                   !.waitingSince = NoTs,
                   !.reason = ReasonOverride]
    ELSE r

\* A staleness test that does not look at needsEditorAttention.
isStagnantByAgeOnly(r, days) == days # Null /\ days[1] >= STAGNANT_THRESHOLD_DAYS

\* A staleness test that holds on the threshold day only.
isStagnantOnThresholdDay(r, days) ==
    /\ ~r.needsEditorAttention
    /\ days # Null
    /\ days[1] = STAGNANT_THRESHOLD_DAYS

\* days is Null or Some(number of days).
isStagnant(r, days) ==
    /\ ~r.needsEditorAttention
    /\ days # Null
    /\ days[1] >= STAGNANT_THRESHOLD_DAYS

\* The subcategory chain without its branch for drafts.
subcategoryNoDraftBranch(type, r, days) ==
    IF isStagnant(r, days) THEN "Stagnant"
    ELSE IF r.needsEditorAttention THEN "Waiting on Editor"
    ELSE "Waiting on Author"

subcategory(type, r, days) ==
    IF type = "DRAFT"
    THEN IF isStagnant(r, days) THEN "Stagnant" ELSE "AWAITED"
    ELSE IF isStagnant(r, days) THEN "Stagnant"
    ELSE IF r.needsEditorAttention THEN "Waiting on Editor"
    ELSE "Waiting on Author"

\* A switch without the case for EIP_1.
categoryWithoutEip1(type) ==
    CASE type = "DRAFT" -> "PR DRAFT"
      [] type = "TYPO" -> "Typo"
      [] type = "NEW_EIP" -> "New EIP"
      [] type = "STATUS_CHANGE" -> "Status Change"
      [] type = "WEBSITE" -> "Website"
      [] type = "TOOLING" -> "Tooling"
      [] OTHER -> "Other"

category(type) ==
    CASE type = "DRAFT" -> "PR DRAFT"
      [] type = "TYPO" -> "Typo"
      [] type = "NEW_EIP" -> "New EIP"
      [] type = "STATUS_CHANGE" -> "Status Change"
      [] type = "WEBSITE" -> "Website"
      [] type = "TOOLING" -> "Tooling"
      [] type = "EIP_1" -> "EIP-1"
      [] OTHER -> "Other"

\* The special case written into the object the caller passed.
baseResultAssignedInPlace(r, c) == overridden(r, c)

\* let result = { ...baseResult } and result = { ...result, ... }: the object
\* the caller passed as params.result, as it is after the call.
baseResultAfterCall(r, c) == r

\* A categorizer that leaves the result as the analyzer gave it.
categorizeResultNoOverride(r, c, days) ==
    [needsEditorAttention |-> r.needsEditorAttention,
     waitingSince |-> r.waitingSince,
     lastEditorAction |-> r.lastEditorAction,
     lastAuthorAction |-> r.lastAuthorAction,
     reason |-> r.reason,
     category |-> category(c.type),
     subcategory |-> subcategory(c.type, r, days)]

categorizeResult(r, c, days) ==
    LET o == overridden(r, c)
    IN [needsEditorAttention |-> o.needsEditorAttention,
        waitingSince |-> o.waitingSince,
        lastEditorAction |-> o.lastEditorAction,
        lastAuthorAction |-> o.lastAuthorAction,
        reason |-> o.reason,
        category |-> category(c.type),
        subcategory |-> subcategory(c.type, o, days)]

\* ------------------------------------------------ callers: analysis, output
\* The minimal analysis both callers make up for a draft.
DraftAnalysis ==
    [needsEditorAttention |-> FALSE,
     waitingSince |-> NoTs,
     lastEditorAction |-> Null,
     lastAuthorAction |-> Null,
     reason |-> ReasonDraft]

\* (now.getTime() - new Date(ts).getTime()) / (1000 * 60 * 60 * 24): time is
\* counted in whole days.
DaysBetween(nowTs, ts) == nowTs - ts

\* timeline.length > 0 ? timeline[timeline.length - 1].timestamp : createdAt
lastActivityTs(timeline, createdAt) ==
    IF Len(timeline) > 0 THEN timeline[Len(timeline)].timestamp ELSE createdAt

\* categorized.needsEditorAttention && !categorized.waitingSince
\*     ? createdAt : categorized.waitingSince
waitingSinceTs(c, createdAt) ==
    IF c.needsEditorAttention /\ c.waitingSince = NoTs THEN createdAt ELSE c.waitingSince

\* waitingSinceTs != null ? days since then : null
waitingDays(ts, nowTs) == IF ts # NoTs THEN Some(DaysBetween(nowTs, ts)) ELSE Null

\* The row the CSV pipeline writes.
CsvRow(c, createdAt, nowTs) ==
    [created_at |-> createdAt,
     needs_editor_attention |-> c.needsEditorAttention,
     waiting_since |-> waitingSinceTs(c, createdAt),
     waiting_days |-> waitingDays(waitingSinceTs(c, createdAt), nowTs),
     category |-> c.category,
     subcategory |-> c.subcategory]

\* The document the Mongo import stores for an open PR: category and
\* subcategory of the categorized result, waitingSince of the analysis.
OpenDocument(c, analysis, createdAt, updated) ==
    [category |-> c.category,
     subcategory |-> c.subcategory,
     waitingSince |-> analysis.waitingSince,
     createdAt |-> createdAt,
     updatedAt |-> updated]

\* A wait time that falls back on the creation time only.
computeWaitTimeDaysFromCreation(waitingSince, updated, createdAt, nowTs) ==
    LET ref == IF waitingSince # NoTs THEN waitingSince ELSE createdAt
    IN IF ref = NoTs THEN Null ELSE Some(DaysBetween(nowTs, ref))

\* const ref = waitingSince ?? updatedAt ?? createdAt
computeWaitTimeDays(waitingSince, updated, createdAt, nowTs) ==
    LET ref == IF waitingSince # NoTs THEN waitingSince
               ELSE IF updated # NoTs THEN updated
               ELSE createdAt
    IN IF ref = NoTs THEN Null ELSE Some(DaysBetween(nowTs, ref))

\* A row of the board, built from a stored document.
BoardRow(d, nowTs) ==
    [createdAt |-> d.createdAt,
     waitTimeDays |-> computeWaitTimeDays(d.waitingSince, d.updatedAt, d.createdAt, nowTs),
     category |-> d.category,
     subcategory |-> d.subcategory]

\* ------------------------------------------- state machine of the timeline
\* No engine call recorded, no scheduler, no database, no client.
NoService ==
    /\ calls = << >>
    /\ cycles = << >>
    /\ log = << >>
    /\ timer = "unset"
    /\ db = Null
    /\ rotator = Null
    /\ request = Null

\* buildTimeline and analyzeTimeline on their own: no caller runs.
NoCaller ==
    /\ caller = "none"
    /\ isDraft = FALSE
    /\ prTitle = << >>
    /\ prBody = NullBody
    /\ prDetails = Null
    /\ listedFiles = << >>
    /\ updatedAt = NoTs
    /\ now = MaxTime
    /\ isTypoLike = FALSE
    /\ fileChanges = << >>
    /\ returned = Null
    /\ classification = Null
    /\ daysSinceLastActivity = Null
    /\ categorized = Null
    /\ output = Null

Init ==
    /\ editors \in SUBSET {Alice, bob, bobBot}
    /\ authors \in {{}, {bob, bobBot}}
    /\ prAuthorLogin \in OpenerLogins
    /\ prCreatedAt \in {1, MaxTime}
    /\ reviews \in SeqsUpTo(ReviewPool, MaxRecords)
    /\ issueComments \in SeqsUpTo(IssueCommentPool, MaxRecords - Len(reviews))
    /\ reviewComments \in
           SeqsUpTo([user : {ALICE, bob}, created_at : {NoTs, MaxTime}],
                    MaxRecords - Len(reviews) - Len(issueComments))
    /\ commits \in
           SeqsUpTo(CommitPool,
                    MaxRecords - Len(reviews) - Len(issueComments) - Len(reviewComments))
    /\ events = << >>
    /\ pc = "start"
    /\ result = Null
    /\ NoCaller
    /\ NoService

\* What buildTimeline has pushed when it reaches the sort.
Collected ==
    CollectEvents(editors, authors, prAuthorLogin, prCreatedAt,
                  reviews, issueComments, reviewComments, commits)

\* buildTimeline: events.sort(...) completes and the events are returned.
BuildTimelineReturns ==
    /\ pc = "start"
    /\ SortMayReturn(Collected)
    /\ events' = SortEvents(Collected)
    /\ pc' = "built"
    /\ UNCHANGED <<serviceVars, inputs, result, callerVars>>

\* buildTimeline: events.sort(...) throws out of the comparator and the
\* promise rejects.
BuildTimelineThrows ==
    /\ pc = "start"
    /\ SortMayThrow(Collected)
    /\ pc' = "threw"
    /\ UNCHANGED <<serviceVars, inputs, events, result, callerVars>>

\* The caller passes the returned timeline to analyzeTimeline.
Analyze ==
    /\ pc = "built"
    /\ result' = Some(analyzeTimeline(events))
    /\ pc' = "analyzed"
    /\ UNCHANGED <<serviceVars, inputs, events, callerVars>>

Spec == Init /\ [][BuildTimelineReturns \/ BuildTimelineThrows \/ Analyze]_vars

\* ------------------------------------------- state machine of the classifier
\* classifyPRType as a function of its five parameters.
FilePool ==
    {ListedFile(PathEip1, "modified", 15, 5, FALSE),
     ListedFile(PathEip1, "added", 15, 5, FALSE),
     ListedFile(PathErc20, "modified", 1, 1, FALSE),
     ListedFile(PathErc20, "modified", 15, 5, TRUE),
     ListedFile(PathErc20, "removed", 0, 15, FALSE),
     ListedFile(PathRip7, "added", 15, 5, FALSE),
     ListedFile(PathRip7, "modified", 1, 1, TRUE),
     ListedFile(PathWebsite, "modified", 1, 1, FALSE),
     ListedFile(PathReadme, "modified", 1, 1, FALSE),
     ListedFile(PathOldEip1, "modified", 15, 5, FALSE)}

ClassifierInit ==
    /\ editors = {}
    /\ authors = {}
    /\ prAuthorLogin = NoLogin
    /\ prCreatedAt = 1
    /\ reviews = << >>
    /\ issueComments = << >>
    /\ reviewComments = << >>
    /\ commits = << >>
    /\ events = << >>
    /\ result = Null
    /\ caller = "none"
    /\ isDraft \in BOOLEAN
    /\ isTypoLike \in BOOLEAN
    /\ prTitle \in Titles
    /\ prBody \in Bodies
    /\ prDetails = Null
    /\ listedFiles \in SeqsUpTo(FilePool, MaxFiles)
    /\ fileChanges = withPreambleFlags(listedFiles)
    /\ updatedAt = NoTs
    /\ now = MaxTime
    /\ returned = Null
    /\ classification = Null
    /\ daysSinceLastActivity = Null
    /\ categorized = Null
    /\ output = Null
    /\ NoService
    /\ pc = "call"

ApplyClassifier ==
    /\ pc = "call"
    /\ returned' = Some(classifyPRType(isDraft, isTypoLike, fileChanges, prTitle, prBody))
    /\ classification' = returned'
    /\ pc' = "returned"
    /\ UNCHANGED <<serviceVars, inputs, events, result, callerInputs, isTypoLike, fileChanges,
                   daysSinceLastActivity, categorized, output>>

ClassifierSpec == ClassifierInit /\ [][ApplyClassifier]_vars

\* ------------------------------------------ state machine of the categorizer
\* categorizeResult as a function of result, classification and
\* daysSinceLastActivity.
\* Results of analyzeTimeline on timelines of an opening, a review and a
\* reply, and the minimal analysis of a draft.
AnalysisResults ==
    LET opened == Event(bob, "AUTHOR", "PR_OPENED", 1)
        review == Event(ALICE, "EDITOR", "REVIEW_APPROVED", 2)
        reply == Event(bob, "AUTHOR", "ISSUE_COMMENT", MaxTime)
    IN {analyzeTimeline(tl) :
            tl \in {<< >>, <<opened>>, <<review>>, <<opened, review>>, <<review, reply>>}}
       \cup {DraftAnalysis}

CategorizerInit ==
    /\ editors = {}
    /\ authors = {}
    /\ prAuthorLogin = NoLogin
    /\ prCreatedAt = 1
    /\ reviews = << >>
    /\ issueComments = << >>
    /\ reviewComments = << >>
    /\ commits = << >>
    /\ events = << >>
    /\ result \in {Some(r) : r \in AnalysisResults}
    /\ caller = "none"
    /\ isDraft = FALSE
    /\ isTypoLike = FALSE
    /\ prTitle = << >>
    /\ prBody = NullBody
    /\ prDetails = Null
    /\ listedFiles = << >>
    /\ fileChanges = << >>
    /\ updatedAt = NoTs
    /\ now = MaxTime
    /\ returned = Null
    /\ classification \in
           {Some(c) : c \in [type : PRTypes, isCreatedByBot : BOOLEAN,
                             openedByPreambleAuthor : {Null, Some(TRUE), Some(FALSE)}]}
    /\ daysSinceLastActivity \in
           {Null, Some(-1), Some(0), Some(STAGNANT_THRESHOLD_DAYS - 1),
            Some(STAGNANT_THRESHOLD_DAYS), Some(STAGNANT_THRESHOLD_DAYS + MaxTime)}
    /\ categorized = Null
    /\ output = Null
    /\ NoService
    /\ pc = "analysis"

\* categorizeResult({ result: analysis, classification, daysSinceLastActivity,
\* prTitle })
Categorize ==
    /\ pc = "analysis"
    /\ categorized' =
           Some(categorizeResult(result[1], classification[1], daysSinceLastActivity))
    /\ pc' = "categorized"
    /\ UNCHANGED <<serviceVars, inputs, events, result, callerInputs, isTypoLike, fileChanges,
                   returned, classification, daysSinceLastActivity, output>>

CategorizerSpec == CategorizerInit /\ [][Categorize]_vars

\* ------------------------------------------------ state machine of a caller
\* One open PR going through the loop body of a caller, from the PR as the
\* API lists it to the CSV row or to the board row of the stored document.
\* The activity records of this machine are all dated.
PipelineInit ==
    /\ editors \in {{}, {Alice}}
    /\ authors \in {{}, {bob}}
    /\ prAuthorLogin \in OpenerLogins
    /\ prCreatedAt = 1
    /\ reviews \in
           SeqsUpTo({[user |-> ALICE, state |-> "APPROVED", submitted_at |-> 2,
                      created_at |-> 2]},
                    MaxPipelineRecords)
    /\ issueComments \in
           SeqsUpTo({[user |-> bob, created_at |-> MaxTime],
                     [user |-> ALICE, created_at |-> 1]},
                    MaxPipelineRecords - Len(reviews))
    /\ reviewComments = << >>
    /\ commits = << >>
    /\ events = << >>
    /\ result = Null
    /\ caller \in {"csv", "mongo"}
    /\ isDraft \in BOOLEAN
    /\ isTypoLike = FALSE
    /\ prTitle \in {<<"s", "t", "a", "t", "u", "s", " ", "u", "p", "d", "a", "t", "e">>,
                   <<"F", "i", "x", " ", "t", "y", "p", "o">>,
                   <<"A", "d", "d", " ", "E", "R", "C">>}
    /\ prBody = NullBody
    /\ prDetails \in
           {Some(PrDetails(1, 1, 1, <<"c", "l", "e", "a", "n">>, Some(TRUE))),
            Some(PrDetails(1, 1, 1, W_dirty, Some(FALSE))),
            Some(PrDetails(6, 40, 10, <<"c", "l", "e", "a", "n">>, Null))}
    /\ listedFiles \in
           SeqsUpTo({ListedFile(PathErc20, "modified", 1, 1, FALSE),
                     ListedFile(PathErc20, "modified", 15, 5, TRUE),
                     ListedFile(PathRip7, "added", 15, 5, FALSE),
                     ListedFile(PathErc20, "modified", 15, 5, FALSE)},
                    MaxPipelineFiles)
    /\ fileChanges = << >>
    /\ updatedAt \in {NoTs, 1, MaxTime}
    /\ now \in {MaxTime, STAGNANT_THRESHOLD_DAYS + 1}
    /\ returned = Null
    /\ classification = Null
    /\ daysSinceLastActivity = Null
    /\ categorized = Null
    /\ output = Null
    /\ NoService
    /\ pc = "fetched"

\* The caller lists the files, computes isTypoLike and the preamble flags,
\* and calls classifyPRType.
ClassifyPR ==
    /\ pc = "fetched"
    /\ fileChanges' = withPreambleFlags(listedFiles)
    /\ isTypoLike' = IsTypoLike(caller, prTitle, prDetails[1])
    /\ returned' =
           Some(classifyPRType(isDraft, isTypoLike', fileChanges', prTitle, prBody))
    /\ classification' = returned'
    /\ pc' = "classified"
    /\ UNCHANGED <<serviceVars, inputs, events, result, callerInputs, daysSinceLastActivity,
                   categorized, output>>

\* The caller's override of the type, then classification.isCreatedByBot.
OverrideType ==
    /\ pc = "classified"
    /\ classification' =
           Some([statusChangeOverride(classification[1], isDraft, isTypoLike,
                                      fileChanges, prTitle)
                    EXCEPT !.isCreatedByBot = isCreatedByBot(prAuthorLogin)])
    /\ pc' = "typed"
    /\ UNCHANGED <<serviceVars, inputs, events, result, callerInputs, isTypoLike, fileChanges,
                   returned, daysSinceLastActivity, categorized, output>>

\* Not a draft: openedByPreambleAuthor, buildTimeline, analyzeTimeline and the
\* days since the last activity.
AnalyzeOpenPR ==
    /\ pc = "typed"
    /\ ~isDraft
    /\ SortMayReturn(Collected)
    /\ classification' =
           Some([classification[1] EXCEPT !.openedByPreambleAuthor =
                    Some(openedByPreambleAuthor(prAuthorLogin, authors))])
    /\ events' = SortEvents(Collected)
    /\ result' = Some(analyzeTimeline(events'))
    /\ daysSinceLastActivity' =
           Some(DaysBetween(now, lastActivityTs(events', prCreatedAt)))
    /\ pc' = "analysis"
    /\ UNCHANGED <<serviceVars, inputs, callerInputs, isTypoLike, fileChanges, returned,
                   categorized, output>>

\* A draft: the minimal analysis and the days the PR has been open.
AnalyzeDraftPR ==
    /\ pc = "typed"
    /\ isDraft
    /\ result' = Some(DraftAnalysis)
    /\ daysSinceLastActivity' = Some(DaysBetween(now, prCreatedAt))
    /\ pc' = "analysis"
    /\ UNCHANGED <<serviceVars, inputs, events, callerInputs, isTypoLike, fileChanges, returned,
                   classification, categorized, output>>

\* The CSV pipeline pushes the row of the PR.
WriteCsvRow ==
    /\ pc = "categorized"
    /\ caller = "csv"
    /\ output' = Some(CsvRow(categorized[1], prCreatedAt, now))
    /\ pc' = "reported"
    /\ UNCHANGED <<serviceVars, inputs, events, result, callerInputs, isTypoLike, fileChanges,
                   returned, classification, daysSinceLastActivity, categorized>>

\* The Mongo import stores the document of the PR.
StoreDocument ==
    /\ pc = "categorized"
    /\ caller = "mongo"
    /\ output' = Some(OpenDocument(categorized[1], result[1], prCreatedAt, updatedAt))
    /\ pc' = "stored"
    /\ UNCHANGED <<serviceVars, inputs, events, result, callerInputs, isTypoLike, fileChanges,
                   returned, classification, daysSinceLastActivity, categorized>>

\* The board reads the document and computes its row.
GetBoardRows ==
    /\ pc = "stored"
    /\ output' = Some(BoardRow(output[1], now))
    /\ pc' = "board"
    /\ UNCHANGED <<serviceVars, inputs, events, result, callerInputs, isTypoLike, fileChanges,
                   returned, classification, daysSinceLastActivity, categorized>>

PipelineSpec ==
    PipelineInit
        /\ [][\/ ClassifyPR
              \/ OverrideType
              \/ AnalyzeOpenPR
              \/ AnalyzeDraftPR
              \/ Categorize
              \/ WriteCsvRow
              \/ StoreDocument
              \/ GetBoardRows]_vars

\* --------------------------------------------- state machine of the engine
\* The three exported functions of the analysis module, called in any order
\* on arguments that stay in the caller's hands between the calls. Each call
\* is recorded with the arguments it was given and the value it returned.
EngineInit ==
    /\ editors = {}
    /\ authors = {}
    /\ prAuthorLogin = NoLogin
    /\ prCreatedAt = 1
    /\ reviews = << >>
    /\ issueComments = << >>
    /\ reviewComments = << >>
    /\ commits = << >>
    /\ events \in {<< >>,
                   <<Event(ALICE, "EDITOR", "REVIEW_APPROVED", 2),
                     Event(bob, "AUTHOR", "ISSUE_COMMENT", MaxTime)>>}
    /\ result \in {Some(r) : r \in AnalysisResults}
    /\ caller = "none"
    /\ isDraft \in BOOLEAN
    /\ isTypoLike = FALSE
    /\ prTitle \in {<<"s", "t", "a", "t", "u", "s", " ", "u", "p", "d", "a", "t", "e">>,
                   <<"A", "d", "d", " ", "E", "R", "C">>}
    /\ prBody = NullBody
    /\ prDetails = Null
    /\ listedFiles \in SeqsUpTo({ListedFile(PathErc20, "modified", 1, 1, TRUE),
                                 ListedFile(PathRip7, "added", 15, 5, FALSE)}, 1)
    /\ fileChanges = withPreambleFlags(listedFiles)
    /\ updatedAt = NoTs
    /\ now = MaxTime
    /\ returned = Null
    /\ classification \in
           {Some(c) : c \in [type : {"DRAFT", "STATUS_CHANGE", "OTHER"},
                             isCreatedByBot : {FALSE},
                             openedByPreambleAuthor : {Null, Some(TRUE)}]}
    /\ daysSinceLastActivity \in {Some(0), Some(STAGNANT_THRESHOLD_DAYS)}
    /\ categorized = Null
    /\ output = Null
    /\ calls = << >>
    /\ cycles = << >>
    /\ log = << >>
    /\ timer = "unset"
    /\ db = Null
    /\ rotator = Null
    /\ request = Null
    /\ pc = "engine"

\* analyzeTimeline(events): events is filtered and indexed, never written.
CallAnalyzeTimeline ==
    /\ pc = "engine"
    /\ Len(calls) < MaxCalls
    /\ calls' = Append(calls, [fn |-> "analyzeTimeline",
                               args |-> <<events>>,
                               out |-> analyzeTimeline(events)])
    /\ UNCHANGED <<inputs, events, pc, result, callerVars, cycles, log, timer, db,
                   rotator, request>>

\* classifyPRType(params): the file changes and the texts are only read.
CallClassifyPRType ==
    /\ pc = "engine"
    /\ Len(calls) < MaxCalls
    /\ calls' = Append(calls,
                       [fn |-> "classifyPRType",
                        args |-> <<isDraft, isTypoLike, fileChanges, prTitle, prBody>>,
                        out |-> classifyPRType(isDraft, isTypoLike, fileChanges,
                                               prTitle, prBody)])
    /\ UNCHANGED <<inputs, events, pc, result, callerVars, cycles, log, timer, db,
                   rotator, request>>

\* categorizeResult(params): the classification is only read; the result
\* object is copied before the special case is written.
CallCategorizeResult ==
    /\ pc = "engine"
    /\ Len(calls) < MaxCalls
    /\ calls' = Append(calls,
                       [fn |-> "categorizeResult",
                        args |-> <<result[1], classification[1], daysSinceLastActivity>>,
                        out |-> categorizeResult(result[1], classification[1],
                                                 daysSinceLastActivity)])
    /\ result' = Some(baseResultAfterCall(result[1], classification[1]))
    /\ UNCHANGED <<inputs, events, pc, callerVars, cycles, log, timer, db, rotator,
                   request>>

EngineSpec ==
    EngineInit
        /\ [][CallAnalyzeTimeline \/ CallClassifyPRType \/ CallCategorizeResult]_vars

\* ----------------------------------------------- snapshots and charts jobs
\* Dates are counted in months: a date is the number of its month, NoTs is
\* null, the end of month m is not before any date of month m, and now is the
\* current month.
\* A PR document has number, createdAt, closedAt, mergedAt, category and
\* subcategory; a chart row has monthYear, type and count.
\* Open at the end of month m, as the snapshots job tests it.
isOpenAtMonthEnd(pr, m) ==
    /\ ~(pr.createdAt > m)
    /\ ~(pr.mergedAt # NoTs /\ pr.mergedAt <= m)
    /\ ~(pr.closedAt # NoTs /\ pr.closedAt <= m)

\* allMonths: the months in which a PR was created, closed or merged.
allMonths(prs) ==
    {pr.createdAt : pr \in prs}
        \cup {pr.closedAt : pr \in {q \in prs : q.closedAt # NoTs}}
        \cup {pr.mergedAt : pr \in {q \in prs : q.mergedAt # NoTs}}

\* Graph 1: Created, Merged, Closed in the month and Open at its end
\* (const stillOpen, under pr.createdAt <= monthEnd).
getPRStateCountsByMonthYear(prs) ==
    LET stillOpen(pr, m) ==
            /\ pr.createdAt <= m
            /\ \/ (pr.mergedAt = NoTs /\ pr.closedAt = NoTs)
               \/ (pr.mergedAt # NoTs /\ pr.mergedAt > m)
               \/ (pr.closedAt # NoTs /\ pr.closedAt > m)
    IN
    UNION {{[monthYear |-> m, type |-> "Created",
             count |-> Cardinality({pr \in prs : pr.createdAt = m})],
            [monthYear |-> m, type |-> "Merged",
             count |-> Cardinality({pr \in prs : pr.mergedAt = m})],
            [monthYear |-> m, type |-> "Closed",
             count |-> Cardinality({pr \in prs : pr.closedAt = m /\ pr.mergedAt = NoTs})],
            [monthYear |-> m, type |-> "Open",
             count |-> Cardinality({pr \in prs : stillOpen(pr, m)})]} :
           m \in allMonths(prs)}

\* One snapshot per month from the month of the first PR to the current one.
\* No PRs: the job skips and the old snapshots stay.
runSnapshotsForRepo(prs, old, nowMonth) ==
    IF prs = {} THEN old
    ELSE LET first == CHOOSE c \in {pr.createdAt : pr \in prs} :
                          \A pr \in prs : c <= pr.createdAt
         IN {[month |-> m, prs |-> {pr \in prs : isOpenAtMonthEnd(pr, m)}] :
                 m \in first..nowMonth}

\* s != null && s !== "" ? s : "Uncategorized"
resolveSubcategory(pr) == IF pr.subcategory # "" THEN pr.subcategory ELSE "Uncategorized"

\* get...CountsFromSnapshots: per snapshot, the number of its PRs per key;
\* a row for every key that occurs.
CountsFromSnapshots(snaps, graph) ==
    LET Key(pr) ==
            CASE graph = "category" -> pr.category
              [] graph = "subcategory" -> resolveSubcategory(pr)
              [] graph = "categorySubcategory" ->
                     <<pr.category, "|", resolveSubcategory(pr)>>
    IN UNION {{[monthYear |-> s.month, type |-> k,
                count |-> Cardinality({pr \in s.prs : Key(pr) = k})] :
                   k \in {Key(pr) : pr \in s.prs}} :
              s \in snaps}

\* populateCharts: Graph 1 from the PR collection, Graph 2 and 3 from the
\* snapshots, or, when there is no snapshot, from the PRs open at the end of
\* each month of allMonths (get...CountsByMonthYear). No PRs: the job skips
\* and the old charts stay.
populateCharts(d) ==
    IF d.prs = {} THEN d
    ELSE LET openByMonthYear ==
                 {[month |-> m, prs |-> {pr \in d.prs : isOpenAtMonthEnd(pr, m)}] :
                      m \in allMonths(d.prs)}
             source == IF d.snapshots # {} THEN d.snapshots ELSE openByMonthYear
         IN [d EXCEPT
                !.prStates = getPRStateCountsByMonthYear(d.prs),
                !.categories = CountsFromSnapshots(source, "category"),
                !.subcategories = CountsFromSnapshots(source, "subcategory"),
                !.categorySubcategories =
                    CountsFromSnapshots(source, "categorySubcategory")]

\* ------------------------------------------ state machine of the scheduler
\* main awaits a first sync and then sets the interval timer; every sync
\* runs the import, the snapshots job and the charts job of one repository.
\* A job reads and writes the database in one step, when it completes; a job
\* that fails leaves the database as it was.
SchedulerInit ==
    /\ editors = {}
    /\ authors = {}
    /\ prAuthorLogin = NoLogin
    /\ prCreatedAt = 1
    /\ reviews = << >>
    /\ issueComments = << >>
    /\ reviewComments = << >>
    /\ commits = << >>
    /\ events = << >>
    /\ result = Null
    /\ NoCaller
    /\ calls = << >>
    /\ cycles = << >>
    /\ log = << >>
    /\ timer = "unset"
    /\ db = [prs |-> {}, snapshots |-> {}, prStates |-> {}, categories |-> {},
             subcategories |-> {}, categorySubcategories |-> {}]
    /\ rotator = Null
    /\ request = Null
    /\ pc = "scheduler"

\* A sync that goes on to the next job after a job has thrown.
nextStepIgnoringFailure(job, ok) ==
    CASE job = "import" -> "snapshots"
      [] job = "snapshots" -> "charts"
      [] job = "charts" -> "completed"

\* sync: the three awaits in one try block; a job that throws ends the cycle
\* in the catch block.
nextStep(job, ok) ==
    IF ~ok THEN "failed"
    ELSE CASE job = "import" -> "snapshots"
           [] job = "snapshots" -> "charts"
           [] job = "charts" -> "completed"

\* Cycle c leaves its job, which has completed (ok) or thrown. log records
\* the start and the end of every job of every cycle.
Advance(c, ok) ==
    LET to == nextStep(cycles[c], ok)
    IN /\ cycles' = [cycles EXCEPT ![c] = to]
       /\ log' = log \o <<[cycle |-> c, job |-> cycles[c],
                            what |-> IF ok THEN "end" ELSE "fail"]>>
                     \o (IF to \in {"snapshots", "charts"}
                         THEN <<[cycle |-> c, job |-> to, what |-> "start"]>>
                         ELSE << >>)

\* sync is entered: by main, or by the interval timer once it is set.
StartSync ==
    /\ Len(cycles) < MaxCycles
    /\ cycles = << >> \/ timer = "set"
    /\ cycles' = Append(cycles, "import")
    /\ log' = Append(log, [cycle |-> Len(cycles) + 1, job |-> "import",
                            what |-> "start"])
    /\ UNCHANGED <<inputs, events, pc, result, callerVars, calls, timer, db, rotator,
                   request>>

\* main: the awaited first sync has returned; setInterval(sync, intervalMs).
SetInterval ==
    /\ timer = "unset"
    /\ Len(cycles) = 1
    /\ cycles[1] \in {"completed", "failed"}
    /\ timer' = "set"
    /\ UNCHANGED <<inputs, events, pc, result, callerVars, calls, cycles, log, db,
                   rotator, request>>

\* runRepo: deleteMany, then insertMany of what pulls.list with state=all
\* yielded: closed PRs are stored with category Other and an empty
\* subcategory.
ImportCompletes(c) ==
    /\ cycles[c] = "import"
    /\ LET open1 == [number |-> 1, createdAt |-> 1, closedAt |-> NoTs,
                     mergedAt |-> NoTs, category |-> "Typo",
                     subcategory |-> "Waiting on Editor"]
           closed1 == [number |-> 1, createdAt |-> 1, closedAt |-> MaxTime,
                       mergedAt |-> NoTs, category |-> "Other", subcategory |-> ""]
           merged1 == [number |-> 1, createdAt |-> 1, closedAt |-> 1,
                       mergedAt |-> 1, category |-> "Other", subcategory |-> ""]
           open2 == [number |-> 2, createdAt |-> MaxTime, closedAt |-> NoTs,
                     mergedAt |-> NoTs, category |-> "New EIP",
                     subcategory |-> "Waiting on Author"]
       IN \E listing \in {{}, {open1}, {closed1}, {open1, open2}, {merged1, open2}} :
              db' = [db EXCEPT !.prs = listing]
    /\ Advance(c, TRUE)
    /\ UNCHANGED <<inputs, events, pc, result, callerVars, calls, timer, rotator,
                   request>>

SnapshotsComplete(c) ==
    /\ cycles[c] = "snapshots"
    /\ db' = [db EXCEPT !.snapshots = runSnapshotsForRepo(db.prs, db.snapshots, now)]
    /\ Advance(c, TRUE)
    /\ UNCHANGED <<inputs, events, pc, result, callerVars, calls, timer, rotator,
                   request>>

ChartsComplete(c) ==
    /\ cycles[c] = "charts"
    /\ db' = populateCharts(db)
    /\ Advance(c, TRUE)
    /\ UNCHANGED <<inputs, events, pc, result, callerVars, calls, timer, rotator,
                   request>>

\* The job cycle c is at throws.
JobFails(c) ==
    /\ cycles[c] \in {"import", "snapshots", "charts"}
    /\ Advance(c, FALSE)
    /\ UNCHANGED <<inputs, events, pc, result, callerVars, calls, timer, db, rotator,
                   request>>

SchedulerSpec ==
    SchedulerInit
        /\ [][\/ StartSync
              \/ SetInterval
              \/ \E c \in 1..Len(cycles) :
                     \/ ImportCompletes(c)
                     \/ SnapshotsComplete(c)
                     \/ ChartsComplete(c)
                     \/ JobFails(c)]_vars

\* ------------------------------------------------------------ GitHub client
\* Tokens are named by their index in the rotator's list. A reset time and
\* now are counted in the same unit; NoTs is a token without a recorded
\* reset time.
TRANSIENT_MAX_RETRIES == 3

\* recordRateLimit: the reset time is stored under currentIndex, then
\* rotateToken.
recordRateLimit(rot, resetTimestamp) ==
    [currentIndex |-> (rot.currentIndex + 1) % TokenCount,
     rateLimitResetTimes |->
         [rot.rateLimitResetTimes EXCEPT ![rot.currentIndex] = resetTimestamp]]

\* shouldWait: wait for the earliest reset when as many recorded reset times
\* are in the future as there are tokens.
shouldWait(rot, nowTs) ==
    LET resetTimes == {i \in 0..(TokenCount - 1) : rot.rateLimitResetTimes[i] > nowTs}
        nextReset == CHOOSE r \in {rot.rateLimitResetTimes[i] : i \in resetTimes} :
                         \A i \in resetTimes : r <= rot.rateLimitResetTimes[i]
    IN IF Cardinality(resetTimes) = TokenCount /\ resetTimes # {}
       THEN [wait |-> nextReset - nowTs > 0, waitMs |-> nextReset - nowTs]
       ELSE [wait |-> FALSE, waitMs |-> 0]

\* A retry test that allows one retry more.
isRetriedOnceMore(retryCount) == retryCount <= TRANSIENT_MAX_RETRIES

\* retryCount < TRANSIENT_MAX_RETRIES
isRetried(retryCount) == retryCount < TRANSIENT_MAX_RETRIES

\* ---------------------------------------------- state machine of the client
\* The caller creates one Octokit with createOctokit, which binds the token
\* that is current then (index 0), and issues its requests through it, one
\* after the other. request.via is the token of the instance the attempt in
\* flight was sent through; request.attempts records every failed attempt.
ClientInit ==
    /\ editors = {}
    /\ authors = {}
    /\ prAuthorLogin = NoLogin
    /\ prCreatedAt = 1
    /\ reviews = << >>
    /\ issueComments = << >>
    /\ reviewComments = << >>
    /\ commits = << >>
    /\ events = << >>
    /\ result = Null
    /\ NoCaller
    /\ calls = << >>
    /\ cycles = << >>
    /\ log = << >>
    /\ timer = "unset"
    /\ db = Null
    /\ rotator = [currentIndex |-> 0,
                  rateLimitResetTimes |-> [i \in 0..(TokenCount - 1) |-> NoTs]]
    /\ request = [number |-> 0, via |-> 0, retryCount |-> 0, state |-> "idle",
                  attempts |-> << >>]
    /\ pc = "client"

\* octokit.<method>(...) on the caller's instance; time may have passed.
SendRequest ==
    /\ request.state \in {"idle", "returned", "thrown"}
    /\ request.number < MaxRequests
    /\ request' = [number |-> request.number + 1, via |-> 0, retryCount |-> 0,
                   state |-> "sent", attempts |-> << >>]
    /\ now' \in {now, now + 1}
    /\ UNCHANGED <<inputs, events, pc, result, caller, isDraft, prTitle, prBody,
                   prDetails, listedFiles, updatedAt, isTypoLike, fileChanges,
                   returned, classification, daysSinceLastActivity, categorized,
                   output, calls, cycles, log, timer, db, rotator>>

\* The attempt in flight is answered with a response.
Succeeds ==
    /\ request.state = "sent"
    /\ request' = [request EXCEPT !.state = "returned"]
    /\ UNCHANGED <<inputs, events, pc, result, caller, isDraft, prTitle, prBody,
                   prDetails, listedFiles, updatedAt, isTypoLike, fileChanges,
                   returned, classification, daysSinceLastActivity, categorized,
                   output, calls, cycles, log, timer, db, now, rotator>>

\* 403 or 429 with an x-ratelimit-reset header: recordRateLimit, shouldWait
\* and the wait, then the request again through a new instance, which binds
\* the token that is current now.
RateLimited ==
    /\ request.state = "sent"
    /\ Cardinality({i \in 1..Len(request.attempts) :
                        request.attempts[i].response = "rateLimit"}) < MaxRateLimits
    /\ LET recorded == recordRateLimit(rotator, now + 1)
           waitInfo == shouldWait(recorded, now)
       IN /\ rotator' = recorded
          /\ now' = IF waitInfo.wait THEN now + waitInfo.waitMs ELSE now
          /\ request' =
                 [request EXCEPT
                     !.via = recorded.currentIndex,
                     !.attempts =
                         Append(@, [response |-> "rateLimit",
                                    token |-> request.via,
                                    recordedFor |-> rotator.currentIndex,
                                    retriedWith |-> recorded.currentIndex,
                                    waited |-> waitInfo.wait,
                                    allLimited |->
                                        \A i \in 0..(TokenCount - 1) :
                                            recorded.rateLimitResetTimes[i] > now])]
    /\ UNCHANGED <<inputs, events, pc, result, caller, isDraft, prTitle, prBody,
                   prDetails, listedFiles, updatedAt, isTypoLike, fileChanges,
                   returned, classification, daysSinceLastActivity, categorized,
                   output, calls, cycles, log, timer, db>>

\* A timeout, a connection failure or a 500, 502, 503, 504: the request again
\* through the same instance with retryCount + 1, or the error is thrown.
TransientError ==
    /\ request.state = "sent"
    /\ request' =
           [request EXCEPT
               !.retryCount = IF isRetried(@) THEN @ + 1 ELSE @,
               !.state = IF isRetried(request.retryCount) THEN "sent" ELSE "thrown",
               !.attempts = Append(@, [response |-> "transient", token |-> request.via])]
    /\ UNCHANGED <<inputs, events, pc, result, caller, isDraft, prTitle, prBody,
                   prDetails, listedFiles, updatedAt, isTypoLike, fileChanges,
                   returned, classification, daysSinceLastActivity, categorized,
                   output, calls, cycles, log, timer, db, now, rotator>>

\* Any other error, a 403 without the header included: thrown.
OtherError ==
    /\ request.state = "sent"
    /\ request' = [request EXCEPT
                      !.state = "thrown",
                      !.attempts = Append(@, [response |-> "other", token |-> request.via])]
    /\ UNCHANGED <<inputs, events, pc, result, caller, isDraft, prTitle, prBody,
                   prDetails, listedFiles, updatedAt, isTypoLike, fileChanges,
                   returned, classification, daysSinceLastActivity, categorized,
                   output, calls, cycles, log, timer, db, now, rotator>>

ClientSpec ==
    ClientInit
        /\ [][SendRequest \/ Succeeds \/ RateLimited \/ TransientError \/ OtherError]_vars

\* =================================================================== claims
\* buildTimeline has returned; events is the returned timeline.
Built == pc \in {"built", "analyzed"}

\* A timeline as analyzeTimeline expects it: every timestamp is a string and
\* the events are in chronological order.
WellFormedTimeline(evs) ==
    /\ \A i \in 1..Len(evs) : evs[i].timestamp # NoTs
    /\ \A i, j \in 1..Len(evs) : i < j => evs[i].timestamp <= evs[j].timestamp

MaxOf(S) == CHOOSE m \in S : \A x \in S : x <= m

EditorTimes(evs) == {evs[i].timestamp : i \in {k \in 1..Len(evs) : evs[k].role = "EDITOR"}}
AuthorTimes(evs) == {evs[i].timestamp : i \in {k \in 1..Len(evs) : evs[k].role = "AUTHOR"}}
AuthorTimesAfter(evs, t) == {a \in AuthorTimes(evs) : a > t}

\* Every order of a listing.
Perms(seq) ==
    {[i \in 1..Len(seq) |-> seq[p[i]]] :
        p \in {f \in [1..Len(seq) -> 1..Len(seq)] :
                  \A x, y \in 1..Len(seq) : f[x] = f[y] => x = y}}

\* Every order in which the four listings can supply the same records.
Reorderings ==
    Perms(reviews) \X Perms(issueComments) \X Perms(reviewComments) \X Perms(commits)

\* buildTimeline followed by analyzeTimeline on the listings o.
DecisionFor(o) ==
    analyzeTimeline(SortEvents(
        CollectEvents(editors, authors, prAuthorLogin, prCreatedAt, o[1], o[2], o[3], o[4])))

DateOf(action) == IF action = Null THEN Null ELSE Some(action[1].date)

\* The part of a decision that does not name a particular event.
Verdict(r) ==
    <<r.needsEditorAttention, r.waitingSince, r.reason,
      DateOf(r.lastEditorAction), DateOf(r.lastAuthorAction)>>

\* The number of events of a role in the timeline that carry an action's date.
TiedWith(action, role) ==
    Cardinality({i \in 1..Len(events) :
        events[i].role = role /\ events[i].timestamp = action[1].date})

C2_AuthorReplied ==
    (pc = "analyzed" /\ WellFormedTimeline(events)) =>
        LET r == result[1]
            ets == EditorTimes(events)
        IN (ets # {} /\ AuthorTimesAfter(events, MaxOf(ets)) # {}) =>
              /\ r.needsEditorAttention = TRUE
              /\ r.waitingSince = MaxOf(AuthorTimesAfter(events, MaxOf(ets)))
              /\ r.lastEditorAction # Null
              /\ r.lastEditorAction[1].date = MaxOf(ets)
              /\ r.lastAuthorAction # Null
              /\ r.lastAuthorAction[1].date = r.waitingSince

\* An editor event is followed by author events at two later times.
C2_Witness ==
    /\ pc = "analyzed"
    /\ WellFormedTimeline(events)
    /\ EditorTimes(events) # {}
    /\ Cardinality(AuthorTimesAfter(events, MaxOf(EditorTimes(events)))) >= 2

\* C3: with an editor event in a sorted timeline and no author event strictly
\* after the latest editor timestamp, the PR does not need editor attention,
\* waitingSince is null, lastEditorAction is the last editor event and
\* lastAuthorAction the latest author event of the timeline, null if none.
C3_WaitingOnAuthor ==
    (pc = "analyzed" /\ WellFormedTimeline(events)) =>
        LET r == result[1]
            ets == EditorTimes(events)
            ats == AuthorTimes(events)
        IN (ets # {} /\ AuthorTimesAfter(events, MaxOf(ets)) = {}) =>
              /\ r.needsEditorAttention = FALSE
              /\ r.waitingSince = NoTs
              /\ r.lastEditorAction # Null
              /\ \E i \in 1..Len(events) :
                    /\ events[i].role = "EDITOR"
                    /\ events[i].timestamp = MaxOf(ets)
                    /\ r.lastEditorAction[1] =
                         [type |-> events[i].source, date |-> events[i].timestamp,
                          actor |-> events[i].actor]
              /\ (ats = {}) => r.lastAuthorAction = Null
              /\ (ats # {}) =>
                    /\ r.lastAuthorAction # Null
                    /\ \E i \in 1..Len(events) :
                          /\ events[i].role = "AUTHOR"
                          /\ events[i].timestamp = MaxOf(ats)
                          /\ r.lastAuthorAction[1] =
                               [type |-> events[i].source, date |-> events[i].timestamp]

\* Author events at two times, none after the last editor event.
C3_Witness ==
    /\ pc = "analyzed"
    /\ WellFormedTimeline(events)
    /\ EditorTimes(events) # {}
    /\ AuthorTimesAfter(events, MaxOf(EditorTimes(events))) = {}
    /\ Cardinality(AuthorTimes(events)) >= 2

\* C4: when no author timestamp exceeds the latest editor timestamp and some
\* author event carries exactly that timestamp, the PR does not need editor
\* attention and waitingSince is null, wherever the tied events stand.
C4_TieIsNotAfter ==
    (pc = "analyzed" /\ WellFormedTimeline(events)) =>
        LET r == result[1]
            ets == EditorTimes(events)
            ats == AuthorTimes(events)
        IN (ets # {} /\ (\A a \in ats : a <= MaxOf(ets)) /\ MaxOf(ets) \in ats) =>
              r.needsEditorAttention = FALSE /\ r.waitingSince = NoTs

\* The tied author event stands behind the tied editor event in the array.
C4_Witness ==
    /\ pc = "analyzed"
    /\ WellFormedTimeline(events)
    /\ \E i, j \in 1..Len(events) :
          /\ i < j
          /\ events[i].role = "EDITOR"
          /\ events[j].role = "AUTHOR"
          /\ events[i].timestamp = MaxOf(EditorTimes(events))
          /\ events[j].timestamp = events[i].timestamp
          /\ \A a \in AuthorTimes(events) : a <= events[i].timestamp

\* C5: a timeline without editor event needs editor attention with
\* waitingSince and lastEditorAction null; for the empty timeline
\* lastAuthorAction is null as well.
C5_NoEditorYet ==
    pc = "analyzed" =>
        LET r == result[1]
        IN /\ (\A i \in 1..Len(events) : events[i].role # "EDITOR") =>
                 /\ r.needsEditorAttention = TRUE
                 /\ r.waitingSince = NoTs
                 /\ r.lastEditorAction = Null
           /\ (events = << >>) => r.lastAuthorAction = Null

\* Author events only.
C5_Witness ==
    /\ pc = "analyzed"
    /\ events # << >>
    /\ \A i \in 1..Len(events) : events[i].role = "AUTHOR"

\* C6: no event of the returned timeline has an actor whose login ends with
\* "[bot]", whatever the editor and author sets hold; a bot opener is not
\* added to the effective authors and yields no PR_OPENED event.
C6_BotExclusion ==
    Built =>
        /\ \A i \in 1..Len(events) : ~events[i].actor.bot
        /\ prAuthorLogin.bot =>
              /\ effectiveAuthors(authors, prAuthorLogin) = {toLowerCase(a) : a \in authors}
              /\ \A i \in 1..Len(events) : events[i].source # "PR_OPENED"

\* The bot is an editor and an author, opened the PR and reviewed it.
C6_Witness ==
    /\ Built
    /\ bobBot \in editors
    /\ bobBot \in authors
    /\ prAuthorLogin = bobBot
    /\ \E i \in 1..Len(reviews) : reviews[i].user = bobBot

C8_MissingTimestampDropped ==
    /\ pc # "threw"
    /\ Built => \A i \in 1..Len(events) : events[i].timestamp \in Times

\* The number of records buildTimeline keeps.
KeptLogin(login) ==
    /\ ~Falsy(login)
    /\ ~login.bot
    /\ toLowerCase(login) \in
           {toLowerCase(l) : l \in editors \cup authors \cup {prAuthorLogin}}

KeptCount ==
    (IF /\ KeptLogin(prAuthorLogin)
        /\ toLowerCase(prAuthorLogin) \notin {toLowerCase(e) : e \in editors}
     THEN 1 ELSE 0)
    + Cardinality({i \in 1..Len(reviews) :
          KeptLogin(reviews[i].user)
          /\ (reviews[i].submitted_at # NoTs \/ reviews[i].created_at # NoTs)})
    + Cardinality({i \in 1..Len(issueComments) : KeptLogin(issueComments[i].user)})
    + Cardinality({i \in 1..Len(reviewComments) : KeptLogin(reviewComments[i].user)})
    + Cardinality({i \in 1..Len(commits) :
          KeptLogin(IF commits[i].author # NoLogin THEN commits[i].author
                    ELSE commits[i].committer)
          /\ (commits[i].authorDate # NoTs \/ commits[i].committerDate # NoTs)})

SourceRank(source) ==
    CASE source = "PR_OPENED" -> 0
      [] source \in {"REVIEW_APPROVED", "REVIEW_CHANGES_REQUESTED", "REVIEW_COMMENTED"} -> 1
      [] source = "ISSUE_COMMENT" -> 2
      [] source = "REVIEW_COMMENT" -> 3
      [] source = "COMMIT" -> 4

\* The events of evs that carry the timestamp t, in their order.
At(evs, t) ==
    LET IsAt(e) == e.timestamp = t
    IN SelectSeq(evs, IsAt)

\* C9: the returned timeline is in non-decreasing order of timestamp (an
\* event without timestamp, see C8, is compared as "undefined" and comes
\* last); events of one timestamp stand in the order they were collected,
\* PR-open, reviews, issue comments, review comments, commits, and in the
\* supplier's order within a source; there is one event for each kept record.
C9_StableSorted ==
    Built =>
        /\ \A i, j \in 1..Len(events) :
              i < j => \/ events[j].timestamp = NoTs
                       \/ /\ events[i].timestamp # NoTs
                          /\ events[i].timestamp <= events[j].timestamp
        /\ \A i, j \in 1..Len(events) :
              (i < j /\ events[i].timestamp = events[j].timestamp)
                 => SourceRank(events[i].source) <= SourceRank(events[j].source)
        /\ \A t \in MaybeTimes : At(events, t) = At(Collected, t)
        /\ Len(events) = KeptCount

\* One actor through two sources at one time, collected behind a later event.
C9_Witness ==
    /\ Built
    /\ \E i, j \in 1..Len(events) :
          /\ i < j
          /\ events[i].actor = events[j].actor
          /\ events[i].timestamp = events[j].timestamp
          /\ events[i].timestamp # NoTs
          /\ events[i].source # events[j].source
    /\ events # Collected

OpenerIsEditor == toLowerCase(prAuthorLogin) \in {toLowerCase(e) : e \in editors}

ClassifierReturned == pc = "returned"

AddedSpecDocument ==
    \E i \in 1..Len(fileChanges) :
        /\ fileChanges[i].status = "added"
        /\ MatchesSpecDocument(fileChanges[i].filename)

FlaggedModifiedSpecDocument ==
    \E i \in 1..Len(fileChanges) :
        /\ fileChanges[i].status = "modified"
        /\ MatchesSpecDocument(fileChanges[i].filename)
        /\ fileChanges[i].preambleStatusChangedOnly = TRUE

\* Some changed file is exactly EIPS/eip-1.md, ERCS/erc-1.md or RIPS/rip-1.md.
DocumentOneChanged ==
    \E i \in 1..Len(fileChanges) :
        textToLowerCase(fileChanges[i].filename) \in DocumentOnePaths

\* The title or the body matches the website rule or the tooling rule.
WebsiteText == includes(textForWebsite(prTitle, prBody), W_website)
TextRuleMatches == WebsiteText \/ isToolingText(prTitle, prBody)

\* Some changed file lies under website/.
WebsiteFileChanged ==
    \E i \in 1..Len(fileChanges) :
        startsWith(textToLowerCase(fileChanges[i].filename), W_websiteDir)

\* C11: for a PR that is neither draft nor typo-like and adds no spec
\* document, the classifier returns STATUS_CHANGE exactly when some modified
\* spec document carries preambleStatusChangedOnly = true, whatever the line
\* counts of the file are.
C11_StatusChangeByFlag ==
    (ClassifierReturned /\ ~isDraft /\ ~isTypoLike /\ ~AddedSpecDocument)
        => (returned[1].type = "STATUS_CHANGE" <=> FlaggedModifiedSpecDocument)

\* C12: the classifier returns EIP_1 only when some changed file is exactly
\* the document #1 of one of the three directories; a mention of EIP-1 in the
\* title or in the body does not make a PR EIP_1.
C12_Eip1OnlyByFile ==
    (ClassifierReturned /\ returned[1].type = "EIP_1") => DocumentOneChanged

\* C13: the classifier returns exactly one label of PRType; DRAFT whenever
\* isDraft, else TYPO whenever isTypoLike, else NEW_EIP whenever a spec document
\* is added, whatever the other parameters are.
C13_FirstThreeRules ==
    ClassifierReturned =>
        /\ returned[1].type \in PRTypes
        /\ (isDraft => returned[1].type = "DRAFT")
        /\ (~isDraft /\ isTypoLike => returned[1].type = "TYPO")
        /\ (~isDraft /\ ~isTypoLike /\ AddedSpecDocument => returned[1].type = "NEW_EIP")

\* All three rules match and the draft rule wins; the text would match a
\* text rule too.
C13_Witness ==
    /\ ClassifierReturned
    /\ isDraft
    /\ isTypoLike
    /\ AddedSpecDocument
    /\ TextRuleMatches
    /\ returned[1].type = "DRAFT"

SmallModifiedSpecDocument ==
    \E i \in 1..Len(fileChanges) :
        /\ fileChanges[i].status = "modified"
        /\ MatchesSpecDocument(fileChanges[i].filename)
        /\ fileChanges[i].additions + fileChanges[i].deletions < StatusChangeMaxLines

Typed == pc \in {"typed", "analysis", "categorized", "reported", "stored", "board"}

\* The caller has called categorizeResult.
Categorized == pc \in {"categorized", "reported", "stored", "board"}

CategorizerReturned == pc = "categorized"

\* The condition of the categorizer's special case, on its inputs.
OverrideCondition ==
    /\ classification[1].type \in {"STATUS_CHANGE", "NEW_EIP"}
    /\ classification[1].openedByPreambleAuthor # Some(TRUE)
    /\ result[1].lastEditorAction = Null
    /\ result[1].lastAuthorAction = Null

\* C16: categorizeResult sets needsEditorAttention to false and waitingSince
\* to null, and replaces the reason, exactly when the type is STATUS_CHANGE or
\* NEW_EIP, openedByPreambleAuthor is not true and both last actions are null;
\* otherwise these three fields are those of the input, and the two last
\* actions are always those of the input.
C16_CategorizerOverride ==
    CategorizerReturned =>
        /\ (OverrideCondition =>
              /\ categorized[1].needsEditorAttention = FALSE
              /\ categorized[1].waitingSince = NoTs
              /\ categorized[1].reason = ReasonOverride)
        /\ (~OverrideCondition =>
              /\ categorized[1].needsEditorAttention = result[1].needsEditorAttention
              /\ categorized[1].waitingSince = result[1].waitingSince
              /\ categorized[1].reason = result[1].reason)
        /\ categorized[1].lastEditorAction = result[1].lastEditorAction
        /\ categorized[1].lastAuthorAction = result[1].lastAuthorAction

\* The special case has turned a result that needed editor attention.
C16_Witness ==
    /\ CategorizerReturned
    /\ OverrideCondition
    /\ result[1].needsEditorAttention
    /\ ~categorized[1].needsEditorAttention
    /\ categorized[1].reason = ReasonOverride

\* No event of an editor, and no event of an author but the opening.
NoActivityAfterOpening ==
    \A i \in 1..Len(events) :
        /\ events[i].role # "EDITOR"
        /\ (events[i].role = "AUTHOR" => events[i].source = "PR_OPENED")

\* The opener is in the author set taken from the preambles.
OpenerIsPreambleAuthor ==
    toLowerCase(prAuthorLogin) \in {toLowerCase(a) : a \in authors}

\* C17: a PR that is not a draft, is typed STATUS_CHANGE or NEW_EIP, was
\* opened by a bot or by a human who is no preamble author, and has no editor
\* activity and no author activity after its opening, is reported with
\* needsEditorAttention = false: never "Waiting on Editor".
C17_NonAuthorOpenerWaitsOnAuthor ==
    (/\ Categorized
     /\ ~isDraft
     /\ classification[1].type \in {"STATUS_CHANGE", "NEW_EIP"}
     /\ ~OpenerIsPreambleAuthor
     /\ NoActivityAfterOpening)
        => /\ categorized[1].needsEditorAttention = FALSE
           /\ categorized[1].subcategory \in {"Waiting on Author", "Stagnant"}

\* C18: for a type other than DRAFT, with needsEditorAttention as it is after
\* the special case, the subcategory is "Stagnant" exactly when
\* needsEditorAttention is false and daysSinceLastActivity is a number of at
\* least 90; otherwise it is "Waiting on Editor" when needsEditorAttention is
\* true and "Waiting on Author" when it is false.
C18_StagnantRule ==
    (CategorizerReturned /\ classification[1].type # "DRAFT") =>
        /\ (categorized[1].subcategory = "Stagnant"
              <=> /\ ~categorized[1].needsEditorAttention
                  /\ daysSinceLastActivity # Null
                  /\ daysSinceLastActivity[1] >= 90)
        /\ (categorized[1].subcategory # "Stagnant" =>
              categorized[1].subcategory =
                  IF categorized[1].needsEditorAttention
                  THEN "Waiting on Editor" ELSE "Waiting on Author")

\* A PR that needs editor attention is past the threshold and is not stagnant.
C18_Witness ==
    /\ CategorizerReturned
    /\ classification[1].type # "DRAFT"
    /\ categorized[1].needsEditorAttention
    /\ daysSinceLastActivity # Null
    /\ daysSinceLastActivity[1] >= 90
    /\ categorized[1].subcategory = "Waiting on Editor"

NoEditorYetVerdict ==
    /\ categorized[1].needsEditorAttention
    /\ categorized[1].waitingSince = NoTs

ConsistentResult(r) ==
    /\ r.waitingSince # NoTs =>
           /\ r.needsEditorAttention
           /\ r.lastEditorAction # Null
           /\ r.lastAuthorAction # Null
           /\ r.lastAuthorAction[1].date = r.waitingSince
           /\ r.lastAuthorAction[1].date > r.lastEditorAction[1].date
    /\ ~r.needsEditorAttention => r.waitingSince = NoTs

\* The larger day counts a second call of categorizeResult is given.
LaterDays == {daysSinceLastActivity[1] + k : k \in 1..MaxTime}

\* C21: for two calls of categorizeResult that differ only in
\* daysSinceLastActivity, x < x', a result that is 'Stagnant' at x is
\* 'Stagnant' at x' as well.
C21_MonotonicStaleness ==
    (/\ CategorizerReturned
     /\ daysSinceLastActivity # Null
     /\ categorized[1].subcategory = "Stagnant")
    => \A x \in LaterDays :
           categorizeResult(result[1], classification[1], Some(x)).subcategory
               = "Stagnant"

C21_Witness ==
    /\ CategorizerReturned
    /\ daysSinceLastActivity = Some(STAGNANT_THRESHOLD_DAYS)
    /\ categorized[1].subcategory = "Stagnant"
    /\ classification[1].type = "OTHER"

C28_ResultConsistency ==
    CategorizerReturned =>
        /\ ConsistentResult(result[1])
        /\ ConsistentResult(categorized[1])
        /\ OpenDocument(categorized[1], result[1], prCreatedAt, updatedAt).waitingSince
               = categorized[1].waitingSince

C28_Witness ==
    /\ CategorizerReturned
    /\ result[1].waitingSince # NoTs
    /\ classification[1].type = "STATUS_CHANGE"
    /\ classification[1].openedByPreambleAuthor = Some(FALSE)
    /\ categorized[1].waitingSince = result[1].waitingSince

\* What the loop body of a caller makes of the PR of the current state: its
\* isTypoLike, classifyPRType, the override of the type, the two flags of the
\* classification and categorizeResult, on the analysis and the day count of
\* the state (both callers compute these two alike).
CallerDecision(who) ==
    LET typo == IsTypoLike(who, prTitle, prDetails[1])
        files == withPreambleFlags(listedFiles)
        typed == statusChangeOverride(
                     classifyPRType(isDraft, typo, files, prTitle, prBody),
                     isDraft, typo, files, prTitle)
        c == [typed EXCEPT
                 !.isCreatedByBot = isCreatedByBot(prAuthorLogin),
                 !.openedByPreambleAuthor =
                     IF isDraft THEN typed.openedByPreambleAuthor
                     ELSE Some(openedByPreambleAuthor(prAuthorLogin, authors))]
    IN categorizeResult(result[1], c, daysSinceLastActivity)

OtherCaller == IF caller = "csv" THEN "mongo" ELSE "csv"

\* What CallerDecision computes for the running caller is what its actions
\* have computed.
CallerDecisionIsCategorized ==
    Categorized => categorized[1] = CallerDecision(caller)

\* C30: for the same open PR the CSV pipeline and the Mongo import's
\* enrichOpenPR assign the same category and the same subcategory.
C30_EntryPointEquivalence ==
    Categorized =>
        /\ categorized[1].category = CallerDecision(OtherCaller).category
        /\ categorized[1].subcategory = CallerDecision(OtherCaller).subcategory

\* The arguments the caller holds for a function of the engine.
HeldArguments(fn) ==
    CASE fn = "analyzeTimeline" -> <<events>>
      [] fn = "classifyPRType" -> <<isDraft, isTypoLike, fileChanges, prTitle, prBody>>
      [] fn = "categorizeResult" ->
             <<result[1], classification[1], daysSinceLastActivity>>

Position(c, job, what) ==
    {i \in 1..Len(log) : log[i] = [cycle |-> c, job |-> job, what |-> what]}

\* Job b of cycle c started only after job a of cycle c had ended.
StartedAfterEnd(c, a, b) ==
    \A i \in Position(c, b, "start") : \E j \in Position(c, a, "end") : j < i

\* C24: within every sync cycle the snapshots job starts only after the import
\* of the cycle has completed successfully and the charts job only after the
\* snapshots job of the cycle has, and after a job of a cycle has failed no
\* job of that cycle runs.
C24_SyncRunOrder ==
    \A c \in 1..Len(cycles) :
        /\ StartedAfterEnd(c, "import", "snapshots")
        /\ StartedAfterEnd(c, "snapshots", "charts")
        /\ \A i \in 1..Len(log) :
               (log[i].cycle = c /\ log[i].what = "fail")
                   => \A j \in (i + 1)..Len(log) : log[j].cycle # c

C24_Witness ==
    /\ Len(cycles) >= 2
    /\ cycles[1] = "completed"
    /\ cycles[2] = "failed"
    /\ Position(2, "snapshots", "fail") # {}

RECURSIVE SumCounts(_)
SumCounts(rows) ==
    IF rows = {} THEN 0
    ELSE LET r == CHOOSE x \in rows : TRUE
         IN r.count + SumCounts(rows \ {r})

OfMonth(rows, m) == {r \in rows : r.monthYear = m}

\* C26: for every month that has Graph 1 rows, the Graph 2 category counts of
\* the month add up to the Graph 1 'Open' count of the month, and so do the
\* Graph 2 subcategory counts and the Graph 3 counts.
C26_ChartTotalsAgree ==
    db # Null =>
        \A g \in {r \in db.prStates : r.type = "Open"} :
            /\ SumCounts(OfMonth(db.categories, g.monthYear)) = g.count
            /\ SumCounts(OfMonth(db.subcategories, g.monthYear)) = g.count
            /\ SumCounts(OfMonth(db.categorySubcategories, g.monthYear)) = g.count

Running == {c \in 1..Len(cycles) : cycles[c] \in {"import", "snapshots", "charts"}}

\* C29: the scheduler never starts a sync cycle while another cycle is still
\* running.
C29_NoOverlappingCycles == Cardinality(Running) <= 1

\* ----------------------------------------------------------- client claims
RateLimitedAttempts ==
    {i \in 1..Len(request.attempts) : request.attempts[i].response = "rateLimit"}

\* C25: with more than one token, a request that got a rate-limit response is
\* retried with a token other than the one that got the response, the reset
\* time is recorded against the token that got the response, and the hook
\* waits only when every token has a reset time in the future; for every
\* request, later ones through the first Octokit instance included.
C25_TokenRotation ==
    (request # Null /\ TokenCount > 1) =>
        \A i \in RateLimitedAttempts :
            LET a == request.attempts[i]
            IN /\ a.retriedWith # a.token
               /\ a.recordedFor = a.token
               /\ a.waited => a.allLimited

TransientAttempts ==
    {i \in 1..Len(request.attempts) : request.attempts[i].response = "transient"}

\* C27: a request that keeps failing with a transient error is retried at most
\* TRANSIENT_MAX_RETRIES times after its first attempt, and when the last
\* retry fails too the error is thrown.
C27_BoundedTransientRetry ==
    request # Null =>
        /\ request.retryCount <= TRANSIENT_MAX_RETRIES
        /\ Cardinality(TransientAttempts) <= TRANSIENT_MAX_RETRIES + 1
        /\ Cardinality(TransientAttempts) = TRANSIENT_MAX_RETRIES + 1
               => request.state = "thrown"

C27_Witness ==
    /\ request # Null
    /\ request.state = "thrown"
    /\ Cardinality(TransientAttempts) = TRANSIENT_MAX_RETRIES + 1
    /\ RateLimitedAttempts # {}
    /\ request.attempts[Len(request.attempts)].response = "transient"

====
